---------------------------- MODULE Spec2Model ----------------------------
(***************************************************************************)
(* The orchestrator of the APK extractor (src/orchestrator/orchestrator.py)*)
(* as a state machine: the container pool with its lock, the job queue,   *)
(* the result cache (an OrderedDict), the dispatch loops (worker), the    *)
(* health monitor (health_check_worker) and the request handlers.         *)
(*                                                                         *)
(* Strings are sequences of one-character strings, so that the job id     *)
(* f"{package}_{ms}" and str.startswith are computed as the code computes *)
(* them.  Time is one integer clock read by time.time() and utcnow().     *)
(***************************************************************************)
EXTENDS Integers, Sequences, FiniteSets, TLC

(***************************************************************************)
(* Configuration (environment values of the program) and model bounds.    *)
(***************************************************************************)
NumContainers == 2          \* entries of CONTAINER_URLS
WORKER_THREADS == 2         \* dispatch loops started at import
max_wait == 60              \* worker(): acquire attempts per job
MAX_CACHED_RESULTS == 3     \* capacity of results_cache
RESULT_EXPIRATION == 1      \* time-to-live, in clock ticks
MaxJobs == 2                \* POST /extract calls that create a job
MaxTime == 2                \* the clock stops advancing here

Containers == 1..NumContainers
Loops == 1..WORKER_THREADS
NoThread == 0 - 1           \* nobody holds the lock
MonitorThread == 0          \* the health-check thread, as a lock owner
HandlerThread == WORKER_THREADS + 1   \* a request-handler thread, as a lock owner
NoContainer == 0            \* Python's None for the loop's container

(***************************************************************************)
(* Text: decimal formatting and parsing, prefix test.                     *)
(***************************************************************************)
DigitChars == <<"0", "1", "2", "3", "4", "5", "6", "7", "8", "9">>

RECURSIVE Digits(_)
Digits(n) ==
  IF n < 10 THEN <<DigitChars[n + 1]>>
  ELSE Digits(n \div 10) \o <<DigitChars[(n % 10) + 1]>>

DigitValue(ch) == CHOOSE d \in 0..9 : DigitChars[d + 1] = ch

RECURSIVE FromDigits(_)
FromDigits(s) ==
  IF Len(s) = 0 THEN 0
  ELSE 10 * FromDigits(SubSeq(s, 1, Len(s) - 1)) + DigitValue(s[Len(s)])

\* datetime.isoformat() / datetime.fromisoformat(): the clock value as text
IsoFormat(t) == Digits(t)
FromIsoFormat(s) == FromDigits(s)

StartsWith(s, p) == Len(p) <= Len(s) /\ SubSeq(s, 1, Len(p)) = p

\* f"{package}_{int(time.time() * 1000)}"
JobId(package, t) == package \o <<"_">> \o Digits(t)

\* the package a job id was made from: the text before its last underscore
LastUnderscore(key) ==
  CHOOSE i \in 1..Len(key) : key[i] = "_" /\ \A j \in (i + 1)..Len(key) : key[j] # "_"
KeyPackage(key) == SubSeq(key, 1, LastUnderscore(key) - 1)

(***************************************************************************)
(* validate_package_name: a letter-led word, then one or more dot-led     *)
(* letter-led words; a word is letters, digits and underscores.           *)
(***************************************************************************)
Letters == {"a", "b", "c"}
WordChars == Letters \cup {DigitChars[i] : i \in 1..10} \cup {"_"}

\* positions of the dots, and the segments between them
DotPositions(s) == {i \in 1..Len(s) : s[i] = "."}
SegmentOk(s, from, to) ==
  /\ from <= to
  /\ s[from] \in Letters
  /\ \A i \in (from + 1)..to : s[i] \in WordChars

MatchesPattern(s) ==
  LET dots == DotPositions(s)
      starts == {1} \cup {d + 1 : d \in dots}
      EndOf(a) == IF \E d \in dots : d >= a
                  THEN (CHOOSE d \in dots : d >= a /\ \A e \in dots : e >= a => d <= e) - 1
                  ELSE Len(s)
  IN /\ dots # {}
     /\ \A a \in starts : SegmentOk(s, a, EndOf(a))

\* mutant: every name is accepted
validate_package_name_accepting(package_name) == <<TRUE, package_name>>

\* <<valid, package>>; the inputs of the model hold no blanks and no "id="
validate_package_name(package_name) ==
  IF Len(package_name) = 0 THEN <<FALSE, package_name>>
  ELSE IF Len(package_name) > 256 THEN <<FALSE, package_name>>
  ELSE IF ~MatchesPattern(package_name) THEN <<FALSE, package_name>>
  ELSE <<TRUE, package_name>>

PkgAB == <<"a", ".", "b">>
PkgABC == <<"a", ".", "b", "_", "c">>
PkgBad == <<"a", "b">>

\* the device agent: the packages cleanups are scheduled for, and how many
\* schedule_cleanup calls a run makes
AgentPackages == {PkgAB, PkgABC}
MaxSchedules == 3


(***************************************************************************)
(* State.                                                                  *)
(***************************************************************************)
VARIABLES
  containers,     \* CONTAINERS: id -> [busy, healthy, jobs_completed, jobs_failed]
  stats,          \* pool.stats
  pool_lock,      \* pool.lock: the thread that holds it, or NoThread
  job_queue,      \* job_queue: sequence of [job_id, package, n]
  results_cache,  \* results_cache: sequence of [key, value], oldest first
  touched,        \* history: the cached keys, least recently touched first
  now,            \* the clock
  loop,           \* per dispatch loop: [pc, job, wait_count, container, resp]
  monitor,        \* the health-check thread's position
  reply,          \* the response the step just taken sent, NoReply if it sent none
  nsub,           \* history: jobs created so far (n numbers them)
  taken,          \* history: n -> how many times job n was dequeued
  written,        \* history: n -> terminal entries written for job n
  calls,          \* history: extraction calls sent to containers
  created,        \* history: n -> the job id POST /extract gave job n
  results_lock,   \* results_lock: the thread that holds it, or NoThread
  handler,        \* a request-handler thread inside a locked section: [pc, job_id]
  forwarded,      \* history: the requests the web backend sent downstream
  pending_cleanups, \* device agent: pending_cleanups, the packages that are keys
  cleanup_lock,   \* device agent: cleanup_lock, the timer that holds it, or NoThread
  timers,         \* device agent: the do_cleanup threads started: [package, pc]
  cleaned         \* history: package -> how many times its cleanup ran

vars == <<containers, stats, pool_lock, job_queue, results_cache, touched, now,
          loop, monitor, reply, nsub, taken, written, calls, created, results_lock, handler,
          forwarded, pending_cleanups, cleanup_lock, timers, cleaned>>

\* the device agent's state
agent == <<pending_cleanups, cleanup_lock, timers, cleaned>>

NoJob == [job_id |-> <<>>, package |-> <<>>, n |-> 0]
NoReply == [op |-> "none", request |-> <<>>, code |-> 0, cached |-> FALSE,
            job_id |-> <<>>, status |-> "", data |-> <<>>, evicted |-> {}]
Jobs == 1..MaxJobs

(***************************************************************************)
(* results_cache as an OrderedDict.                                       *)
(***************************************************************************)
CacheKeys(c) == {c[i].key : i \in 1..Len(c)}
IndexOf(c, k) == CHOOSE i \in 1..Len(c) : c[i].key = k
Lookup(c, k) == c[IndexOf(c, k)].value

\* del results_cache[k]
DelItem(c, k) == SelectSeq(c, LAMBDA e : e.key # k)

\* results_cache[k] = v: a present key keeps its place, a new key goes last
SetItem(c, k, v) ==
  IF k \in CacheKeys(c)
  THEN [i \in 1..Len(c) |-> IF c[i].key = k THEN [key |-> k, value |-> v] ELSE c[i]]
  ELSE Append(c, [key |-> k, value |-> v])

\* results_cache.move_to_end(k)
MoveToEnd(c, k) == Append(DelItem(c, k), [key |-> k, value |-> Lookup(c, k)])

\* mutant: the eviction loop stops one entry late
RECURSIVE PopWhileOver(_)
PopWhileOver(c) ==
  IF Len(c) > MAX_CACHED_RESULTS /\ Len(c) > 0 THEN PopWhileOver(Tail(c)) ELSE c

\* while len(results_cache) >= MAX_CACHED_RESULTS: results_cache.popitem(last=False)
RECURSIVE PopWhileFull(_)
PopWhileFull(c) ==
  IF Len(c) >= MAX_CACHED_RESULTS /\ Len(c) > 0 THEN PopWhileFull(Tail(c)) ELSE c

\* cache_result(job_id, result) at clock value t
cache_result(c, job_id, result, t) ==
  LET stamped == [result EXCEPT !.expires_at = IsoFormat(t + RESULT_EXPIRATION),
                                !.cached_at = IsoFormat(t)]
  IN SetItem(PopWhileFull(c), job_id, stamped)

Expired(value, t) == t > FromIsoFormat(value.expires_at)

\* get_cached_result(job_id) at clock value t: <<cache afterwards, found, value>>
get_cached_result(c, job_id, t) ==
  IF job_id \in CacheKeys(c)
  THEN IF Expired(Lookup(c, job_id), t)
       THEN <<DelItem(c, job_id), FALSE, Lookup(c, job_id)>>
       ELSE <<MoveToEnd(c, job_id), TRUE, Lookup(c, job_id)>>
  ELSE <<c, FALSE, [status |-> "none"]>>

\* mutant: the sweep also removes the entries that expire at this very time
cleanup_expired_results_at_expiry(c, t) ==
  SelectSeq(c, LAMBDA e : t < FromIsoFormat(e.value.expires_at))

\* cleanup_expired_results() at clock value t
cleanup_expired_results(c, t) == SelectSeq(c, LAMBDA e : ~Expired(e.value, t))

\* the touch order after cache_result(k) or a live get_cached_result(k) left
\* the cache as c2, and after entries were only removed
TouchedAfterTouch(t, c2, k) ==
  Append(SelectSeq(t, LAMBDA x : x \in CacheKeys(c2) /\ x # k), k)
TouchedAfterDrop(t, c2) == SelectSeq(t, LAMBDA x : x \in CacheKeys(c2))

Entry(status, data, error, container) ==
  [status |-> status, data |-> data, error |-> error, container |-> container,
   expires_at |-> <<>>, cached_at |-> <<>>]

(***************************************************************************)
(* ContainerPool.                                                         *)
(***************************************************************************)
\* mutant: a failed probe also clears the busy flag
check_container_health_freeing(cs, i, ok) ==
  [cs EXCEPT ![i].healthy = ok, ![i].busy = IF ok THEN @ ELSE FALSE]

\* _check_container_health(container) with the probe's answer ok
check_container_health(cs, i, ok) == [cs EXCEPT ![i].healthy = ok]

\* the scan of get_available_container from container i on, probe[j] being
\* the answer container j's /health gives: <<containers afterwards, result>>
RECURSIVE ScanFrom(_, _, _)
ScanFrom(cs, i, probe) ==
  IF i > NumContainers THEN <<cs, NoContainer>>
  ELSE IF ~cs[i].busy /\ cs[i].healthy
       THEN IF probe[i]
            THEN <<[check_container_health(cs, i, TRUE) EXCEPT ![i].busy = TRUE], i>>
            ELSE ScanFrom(check_container_health(cs, i, FALSE), i + 1, probe)
       ELSE ScanFrom(cs, i + 1, probe)

\* mutant: the scan does not test the busy flag
RECURSIVE ScanIgnoringBusy(_, _, _)
ScanIgnoringBusy(cs, i, probe) ==
  IF i > NumContainers THEN <<cs, NoContainer>>
  ELSE IF cs[i].healthy
       THEN IF probe[i]
            THEN <<[check_container_health(cs, i, TRUE) EXCEPT ![i].busy = TRUE], i>>
            ELSE ScanIgnoringBusy(check_container_health(cs, i, FALSE), i + 1, probe)
       ELSE ScanIgnoringBusy(cs, i + 1, probe)
get_available_container_ignoring_busy(cs, probe) == ScanIgnoringBusy(cs, 1, probe)

\* mutant: the scan does not test the healthy flag
RECURSIVE ScanIgnoringHealthy(_, _, _)
ScanIgnoringHealthy(cs, i, probe) ==
  IF i > NumContainers THEN <<cs, NoContainer>>
  ELSE IF ~cs[i].busy
       THEN IF probe[i]
            THEN <<[check_container_health(cs, i, TRUE) EXCEPT ![i].busy = TRUE], i>>
            ELSE ScanIgnoringHealthy(check_container_health(cs, i, FALSE), i + 1, probe)
       ELSE ScanIgnoringHealthy(cs, i + 1, probe)
get_available_container_ignoring_healthy(cs, probe) == ScanIgnoringHealthy(cs, 1, probe)

\* mutant: the scan marks every container it could return as busy
get_available_container_marking_all(cs, probe) ==
  LET got == ScanFrom(cs, 1, probe)
  IN <<[i \in Containers |->
          IF got[2] # NoContainer /\ ~cs[i].busy /\ cs[i].healthy
          THEN [got[1][i] EXCEPT !.busy = TRUE] ELSE got[1][i]], got[2]>>

get_available_container(cs, probe) == ScanFrom(cs, 1, probe)

\* mutant: every release is counted as a success
release_container_always_completed(cs, id, success) ==
  IF id \in Containers
  THEN [cs EXCEPT ![id].busy = FALSE, ![id].jobs_completed = @ + 1]
  ELSE cs

\* mutant: the release counts the job but leaves the container marked busy
release_container_keeping_busy(cs, id, success) ==
  IF id \in Containers
  THEN IF success
       THEN [cs EXCEPT ![id].jobs_completed = @ + 1]
       ELSE [cs EXCEPT ![id].jobs_failed = @ + 1]
  ELSE cs

\* release_container(container_id, success): the containers afterwards
release_container(cs, id, success) ==
  IF id \in Containers
  THEN IF success
       THEN [cs EXCEPT ![id].busy = FALSE, ![id].jobs_completed = @ + 1]
       ELSE [cs EXCEPT ![id].busy = FALSE, ![id].jobs_failed = @ + 1]
  ELSE cs

\* mutant: a release with an id of no container is counted as well
release_stats_counting_unknown(st, id, success) ==
  IF success
  THEN [st EXCEPT !.successful_jobs = @ + 1, !.total_jobs = @ + 1]
  ELSE [st EXCEPT !.failed_jobs = @ + 1, !.total_jobs = @ + 1]

\* mutant: a failed release is added to total_jobs only
release_stats_uncounted_failures(st, id, success) ==
  IF id \in Containers
  THEN IF success
       THEN [st EXCEPT !.successful_jobs = @ + 1, !.total_jobs = @ + 1]
       ELSE [st EXCEPT !.total_jobs = @ + 1]
  ELSE st

\* ... and pool.stats afterwards
release_stats(st, id, success) ==
  IF id \in Containers
  THEN IF success
       THEN [st EXCEPT !.successful_jobs = @ + 1, !.total_jobs = @ + 1]
       ELSE [st EXCEPT !.failed_jobs = @ + 1, !.total_jobs = @ + 1]
  ELSE st

RECURSIVE CheckFrom(_, _, _)
CheckFrom(cs, i, probe) ==
  IF i > NumContainers THEN cs
  ELSE CheckFrom(check_container_health(cs, i, probe[i]), i + 1, probe)

\* mutant: the refresh passes over busy containers
check_all_containers_idle_only(cs, probe) ==
  [i \in Containers |-> IF cs[i].busy THEN cs[i]
                        ELSE check_container_health(cs, i, probe[i])[i]]

\* check_all_containers()
check_all_containers(cs, probe) == CheckFrom(cs, 1, probe)

Probes == [Containers -> BOOLEAN]

(***************************************************************************)
(* Initial state: module import has built CONTAINERS, the pool, the empty *)
(* queue and cache, and started the dispatch loops and the health thread. *)
(***************************************************************************)
Init ==
  /\ containers = [i \in Containers |->
                     [busy |-> FALSE, healthy |-> TRUE,
                      jobs_completed |-> 0, jobs_failed |-> 0]]
  /\ stats = [total_jobs |-> 0, successful_jobs |-> 0, failed_jobs |-> 0]
  /\ pool_lock = NoThread
  /\ job_queue = <<>>
  /\ results_cache = <<>>
  /\ touched = <<>>
  /\ now = 0
  /\ loop = [l \in Loops |->
               [pc |-> "take", job |-> NoJob, wait_count |-> 0,
                container |-> NoContainer, resp |-> "none"]]
  /\ monitor = "sleep"
  /\ reply = NoReply
  /\ nsub = 0
  /\ taken = [n \in Jobs |-> 0]
  /\ written = [n \in Jobs |-> 0]
  /\ calls = 0
  /\ created = [n \in Jobs |-> <<>>]
  /\ results_lock = NoThread
  /\ handler = [pc |-> "idle", job_id |-> <<>>]
  /\ forwarded = <<>>
  /\ pending_cleanups = {}
  /\ cleanup_lock = NoThread
  /\ timers = <<>>
  /\ cleaned = [p \in AgentPackages |-> 0]

(***************************************************************************)
(* POST /extract.                                                         *)
(***************************************************************************)
\* the dedup scan: the place of the first entry, in cache order, whose key
\* starts with package + "_" and whose status is completed; 0 when none
DedupHits(c, package) ==
  {i \in 1..Len(c) : /\ StartsWith(c[i].key, package \o <<"_">>)
                     /\ c[i].value.status = "completed"}
DedupLookup(c, package) ==
  IF DedupHits(c, package) = {} THEN 0
  ELSE CHOOSE i \in DedupHits(c, package) : \A j \in DedupHits(c, package) : i <= j

Extract(input) ==
  LET v == validate_package_name(input)
      package == v[2]
      job_id == JobId(package, now)
      hit == DedupLookup(results_cache, package)
  IN IF ~v[1]
     THEN /\ reply' = [NoReply EXCEPT !.op = "extract", !.request = input,
                                       !.code = 400, !.status = "error"]
          /\ UNCHANGED <<containers, stats, pool_lock, job_queue, results_cache, touched, now,
                         loop, monitor, nsub, taken, written, calls, created, results_lock, handler, forwarded, agent>>
     ELSE IF hit # 0
     THEN /\ reply' = [NoReply EXCEPT !.op = "extract", !.request = input,
                                       !.code = 200, !.cached = TRUE,
                                       !.job_id = results_cache[hit].key,
                                       !.status = "completed",
                                       !.data = results_cache[hit].value.data]
          /\ UNCHANGED <<containers, stats, pool_lock, job_queue, results_cache, touched, now,
                         loop, monitor, nsub, taken, written, calls, created, results_lock, handler, forwarded, agent>>
     ELSE /\ nsub < MaxJobs
          /\ nsub' = nsub + 1
          /\ created' = [created EXCEPT ![nsub + 1] = job_id]
          /\ job_queue' = Append(job_queue,
                                 [job_id |-> job_id, package |-> package, n |-> nsub + 1])
          /\ reply' = [NoReply EXCEPT !.op = "extract", !.request = input,
                                       !.code = 202, !.job_id = job_id,
                                       !.status = "queued"]
          /\ UNCHANGED <<containers, stats, pool_lock, results_cache, touched, now, loop,
                         monitor, taken, written, calls, results_lock, handler, forwarded, agent>>

(***************************************************************************)
(* worker(): one dispatch loop l.                                         *)
(***************************************************************************)
\* mutant: the job is read but stays at the head of the queue
DequeueLeavingJob(l) ==
  /\ loop[l].pc = "take"
  /\ Len(job_queue) > 0
  /\ job_queue' = job_queue
  /\ loop' = [loop EXCEPT ![l] = [pc |-> "acquire", job |-> Head(job_queue),
                                  wait_count |-> 0, container |-> NoContainer,
                                  resp |-> "none"]]
  /\ taken' = [taken EXCEPT ![Head(job_queue).n] = IF @ < 2 THEN @ + 1 ELSE @]
  /\ reply' = NoReply
  /\ UNCHANGED <<containers, stats, pool_lock, results_cache, touched, now, monitor, nsub, written, calls, created, results_lock, handler, forwarded, agent>>

\* mutant: the loop takes the job enqueued last
DequeueNewest(l) ==
  /\ loop[l].pc = "take"
  /\ Len(job_queue) > 0
  /\ job_queue' = SubSeq(job_queue, 1, Len(job_queue) - 1)
  /\ loop' = [loop EXCEPT ![l] = [pc |-> "acquire", job |-> job_queue[Len(job_queue)],
                                  wait_count |-> 0, container |-> NoContainer,
                                  resp |-> "none"]]
  /\ taken' = [taken EXCEPT ![job_queue[Len(job_queue)].n] = @ + 1]
  /\ reply' = NoReply
  /\ UNCHANGED <<containers, stats, pool_lock, results_cache, touched, now, monitor, nsub,
                 written, calls, created, results_lock, handler, forwarded, agent>>

\* job_id, package = job_queue.get(); container = None; wait_count = 0
Dequeue(l) ==
  /\ loop[l].pc = "take"
  /\ Len(job_queue) > 0
  /\ job_queue' = Tail(job_queue)
  /\ loop' = [loop EXCEPT ![l] = [pc |-> "acquire", job |-> Head(job_queue),
                                  wait_count |-> 0, container |-> NoContainer,
                                  resp |-> "none"]]
  /\ taken' = [taken EXCEPT ![Head(job_queue).n] = @ + 1]
  /\ reply' = NoReply
  /\ UNCHANGED <<containers, stats, pool_lock, results_cache, touched, now, monitor, nsub, written, calls, created, results_lock, handler, forwarded, agent>>

\* while container is None and wait_count < max_wait:
\*     pool.get_available_container(): with self.lock
AcquireLock(l) ==
  /\ loop[l].pc = "acquire"
  /\ loop[l].wait_count < max_wait
  /\ pool_lock = NoThread
  /\ pool_lock' = l
  /\ loop' = [loop EXCEPT ![l].pc = "scan"]
  /\ reply' = NoReply
  /\ UNCHANGED <<containers, stats, job_queue, results_cache, touched, now, monitor, nsub, taken, written, calls, created, results_lock, handler, forwarded, agent>>

\* the scan under the lock, the lock's release, and the loop's test of the result
Scan(l) ==
  /\ loop[l].pc = "scan"
  /\ \E probe \in Probes :
       LET got == get_available_container(containers, probe)
       IN /\ containers' = got[1]
          /\ loop' = IF got[2] = NoContainer
                     THEN [loop EXCEPT ![l].pc = "acquire", ![l].wait_count = @ + 1]
                     ELSE [loop EXCEPT ![l].pc = "call", ![l].container = got[2],
                                       ![l].wait_count = 0]
  /\ pool_lock' = NoThread
  /\ reply' = NoReply
  /\ UNCHANGED <<stats, job_queue, results_cache, touched, now, monitor, nsub, taken,
                 written, calls, created, results_lock, handler, forwarded, agent>>

\* mutant: the job is dropped without an entry
GiveUpSilently(l) ==
  /\ loop[l].pc = "acquire"
  /\ loop[l].wait_count >= max_wait
  /\ loop' = [loop EXCEPT ![l] = [pc |-> "take", job |-> NoJob, wait_count |-> 0,
                                  container |-> NoContainer, resp |-> "none"]]
  /\ reply' = NoReply
  /\ UNCHANGED <<containers, stats, pool_lock, job_queue, results_cache, touched, now, monitor,
                 nsub, taken, written, calls, created, results_lock, handler, forwarded, agent>>

\* if container is None: cache_result(job_id, failed); task_done(); continue
GiveUp(l) ==
  /\ loop[l].pc = "acquire"
  /\ loop[l].wait_count >= max_wait
  /\ results_lock = NoThread
  /\ results_cache' = cache_result(results_cache, loop[l].job.job_id,
                        Entry("failed", <<>>, "No container available after timeout",
                              NoContainer), now)
  /\ touched' = TouchedAfterTouch(touched, results_cache', loop[l].job.job_id)
  /\ written' = [written EXCEPT ![loop[l].job.n] = @ + 1]
  /\ loop' = [loop EXCEPT ![l] = [pc |-> "take", job |-> NoJob, wait_count |-> 0,
                                  container |-> NoContainer, resp |-> "none"]]
  /\ reply' = NoReply
  /\ UNCHANGED <<containers, stats, pool_lock, job_queue, now, monitor, nsub,
                 taken, calls, created, results_lock, handler, forwarded, agent>>

\* requests.post(.../extract_apk) and response.json(): the call returns 200,
\* another status, times out, or raises anything else
Outcomes == {"ok", "status", "timeout", "error"}

Call(l) ==
  /\ loop[l].pc = "call"
  /\ \E r \in Outcomes : loop' = [loop EXCEPT ![l].pc = "store", ![l].resp = r]
  /\ calls' = calls + 1
  /\ reply' = NoReply
  /\ UNCHANGED <<containers, stats, pool_lock, job_queue, results_cache, touched, now, monitor,
                 nsub, taken, written, created, results_lock, handler, forwarded, agent>>

\* mutant: the failed entries do not name the container
ResultOfWithoutContainer(r, package, container) ==
  IF r = "ok" THEN Entry("completed", package, "", container)
  ELSE Entry("failed", <<>>, "exception", NoContainer)

\* the entry each branch of the try statement caches
ResultOf(r, package, container) ==
  IF r = "ok" THEN Entry("completed", package, "", container)
  ELSE IF r = "status" THEN Entry("failed", <<>>, "Unknown error", container)
  ELSE IF r = "timeout" THEN Entry("failed", <<>>, "Extraction timeout", container)
  ELSE Entry("failed", <<>>, "exception", container)

\* mutant: the branch for other exceptions caches nothing
StoreUnlessException(l) ==
  /\ loop[l].pc = "store"
  /\ IF loop[l].resp = "error"
     THEN UNCHANGED <<results_cache, touched, written>>
     ELSE /\ results_cache' = cache_result(results_cache, loop[l].job.job_id,
                                ResultOf(loop[l].resp, loop[l].job.package,
                                         loop[l].container), now)
          /\ touched' = TouchedAfterTouch(touched, results_cache', loop[l].job.job_id)
          /\ written' = [written EXCEPT ![loop[l].job.n] = @ + 1]
  /\ loop' = [loop EXCEPT ![l].pc = "release"]
  /\ reply' = NoReply
  /\ UNCHANGED <<containers, stats, pool_lock, job_queue, now, monitor, nsub,
                 taken, calls, created, results_lock, handler, forwarded, agent>>

\* mutant: the iteration goes on to the release with the entry still unwritten
StoreLate(l) ==
  /\ loop[l].pc = "store"
  /\ loop' = [loop EXCEPT ![l].pc = "release"]
  /\ reply' = NoReply
  /\ UNCHANGED <<containers, stats, pool_lock, job_queue, results_cache, touched, now,
                 monitor, nsub, taken, written, calls, created, results_lock, handler,
                 forwarded, agent>>

Store(l) ==
  /\ loop[l].pc = "store"
  /\ results_lock = NoThread
  /\ results_cache' = cache_result(results_cache, loop[l].job.job_id,
                        ResultOf(loop[l].resp, loop[l].job.package, loop[l].container),
                        now)
  /\ touched' = TouchedAfterTouch(touched, results_cache', loop[l].job.job_id)
  /\ written' = [written EXCEPT ![loop[l].job.n] = @ + 1]
  /\ loop' = [loop EXCEPT ![l].pc = "release"]
  /\ reply' = NoReply
  /\ UNCHANGED <<containers, stats, pool_lock, job_queue, now, monitor, nsub,
                 taken, calls, created, results_lock, handler, forwarded, agent>>

\* pool.release_container(container["id"], success=...): with self.lock
ReleaseLock(l) ==
  /\ loop[l].pc = "release"
  /\ pool_lock = NoThread
  /\ pool_lock' = l
  /\ loop' = [loop EXCEPT ![l].pc = "releasing"]
  /\ reply' = NoReply
  /\ UNCHANGED <<containers, stats, job_queue, results_cache, touched, now, monitor, nsub, taken, written, calls, created, results_lock, handler, forwarded, agent>>

\* mutant: the iteration ends without the release
ReleaseSkipped(l) ==
  /\ loop[l].pc = "releasing"
  /\ pool_lock' = NoThread
  /\ loop' = [loop EXCEPT ![l] = [pc |-> "take", job |-> NoJob, wait_count |-> 0,
                                  container |-> NoContainer, resp |-> "none"]]
  /\ reply' = NoReply
  /\ UNCHANGED <<containers, stats, job_queue, results_cache, touched, now, monitor, nsub,
                 taken, written, calls, created, results_lock, handler, forwarded, agent>>

\* the body of release_container, the lock's release, task_done(), next round
Release(l) ==
  /\ loop[l].pc = "releasing"
  /\ containers' = release_container(containers, loop[l].container, loop[l].resp = "ok")
  /\ stats' = release_stats(stats, loop[l].container, loop[l].resp = "ok")
  /\ pool_lock' = NoThread
  /\ loop' = [loop EXCEPT ![l] = [pc |-> "take", job |-> NoJob, wait_count |-> 0,
                                  container |-> NoContainer, resp |-> "none"]]
  /\ reply' = NoReply
  /\ UNCHANGED <<job_queue, results_cache, touched, now, monitor, nsub, taken, written,
                 calls, created, results_lock, handler, forwarded, agent>>

(***************************************************************************)
(* worker(): where control goes when a statement of the iteration raises. *)
(***************************************************************************)
\* an exception outside the inner try statement - in the acquire loop or in
\* the give-up branch: the outer except Exception logs it and the loop goes
\* round; a 'with self.lock' section it was in is left
RaiseInAcquire(l) ==
  /\ loop[l].pc \in {"acquire", "scan"}
  /\ pool_lock' = IF loop[l].pc = "scan" THEN NoThread ELSE pool_lock
  /\ loop' = [loop EXCEPT ![l] = [pc |-> "take", job |-> NoJob, wait_count |-> 0,
                                  container |-> NoContainer, resp |-> "none"]]
  /\ reply' = [NoReply EXCEPT !.op = "worker_error"]
  /\ UNCHANGED <<containers, stats, job_queue, results_cache, touched, now, monitor,
                 nsub, taken, written, calls, created, results_lock, handler, forwarded, agent>>

\* an exception in the body of the inner try statement after the call
\* returned - in cache_result or in release_container: control goes to the
\* except Exception clause, which caches a failed entry and releases
RaiseInTry(l) ==
  /\ loop[l].pc \in {"store", "releasing"}
  /\ loop[l].resp \in {"ok", "status"}
  /\ pool_lock' = IF loop[l].pc = "releasing" THEN NoThread ELSE pool_lock
  /\ loop' = [loop EXCEPT ![l].pc = "store", ![l].resp = "error"]
  /\ reply' = [NoReply EXCEPT !.op = "worker_error"]
  /\ UNCHANGED <<containers, stats, job_queue, results_cache, touched, now, monitor,
                 nsub, taken, written, calls, created, results_lock, handler, forwarded, agent>>

\* an exception inside an except clause - in its cache_result or its
\* release_container: finally runs task_done(), the outer except Exception
\* logs it and the loop goes round
RaiseInHandler(l) ==
  /\ loop[l].pc \in {"store", "releasing"}
  /\ loop[l].resp \in {"timeout", "error"}
  /\ pool_lock' = IF loop[l].pc = "releasing" THEN NoThread ELSE pool_lock
  /\ loop' = [loop EXCEPT ![l] = [pc |-> "take", job |-> NoJob, wait_count |-> 0,
                                  container |-> NoContainer, resp |-> "none"]]
  /\ reply' = [NoReply EXCEPT !.op = "worker_error"]
  /\ UNCHANGED <<containers, stats, job_queue, results_cache, touched, now, monitor,
                 nsub, taken, written, calls, created, results_lock, handler, forwarded, agent>>

(***************************************************************************)
(* health_check_worker().                                                 *)
(***************************************************************************)
MonitorLock ==
  /\ monitor = "sleep"
  /\ pool_lock = NoThread
  /\ pool_lock' = MonitorThread
  /\ monitor' = "checking"
  /\ reply' = NoReply
  /\ UNCHANGED <<containers, stats, job_queue, results_cache, touched, now, loop, nsub,
                 taken, written, calls, created, results_lock, handler, forwarded, agent>>

MonitorCheckAll ==
  /\ monitor = "checking"
  /\ \E probe \in Probes : containers' = check_all_containers(containers, probe)
  /\ pool_lock' = NoThread
  /\ monitor' = "sweep"
  /\ reply' = NoReply
  /\ UNCHANGED <<stats, job_queue, results_cache, touched, now, loop, nsub, taken,
                 written, calls, created, results_lock, handler, forwarded, agent>>

MonitorCleanup ==
  /\ monitor = "sweep"
  /\ results_lock = NoThread
  /\ results_cache' = cleanup_expired_results(results_cache, now)
  /\ touched' = TouchedAfterDrop(touched, results_cache')
  /\ monitor' = "sleep"
  /\ reply' = NoReply
  /\ UNCHANGED <<containers, stats, pool_lock, job_queue, now, loop, nsub,
                 taken, written, calls, created, results_lock, handler, forwarded, agent>>

\* mutant: an exception ends the health thread
MonitorRaiseStopping ==
  /\ monitor \in {"checking", "sweep"}
  /\ monitor' = "dead"
  /\ pool_lock' = IF monitor = "checking" THEN NoThread ELSE pool_lock
  /\ reply' = [NoReply EXCEPT !.op = "monitor_error"]
  /\ UNCHANGED <<containers, stats, job_queue, results_cache, touched, now, loop, nsub,
                 taken, written, calls, created, results_lock, handler, forwarded, agent>>

\* an exception in check_all_containers (after the first k probes, leaving
\* pool.lock) or in cleanup_expired_results: except Exception, log, sleep
MonitorRaise ==
  /\ monitor \in {"checking", "sweep"}
  /\ IF monitor = "checking"
     THEN /\ \E probe \in Probes : \E k \in 0..(NumContainers - 1) :
               containers' = [i \in Containers |->
                                IF i <= k THEN check_container_health(containers, i, probe[i])[i]
                                ELSE containers[i]]
          /\ pool_lock' = NoThread
     ELSE UNCHANGED <<containers, pool_lock>>
  /\ monitor' = "sleep"
  /\ reply' = [NoReply EXCEPT !.op = "monitor_error"]
  /\ UNCHANGED <<stats, job_queue, results_cache, touched, now, loop, nsub,
                 taken, written, calls, created, results_lock, handler, forwarded, agent>>

(***************************************************************************)
(* GET /status/<job_id>.                                                  *)
(***************************************************************************)
Status(job_id) ==
  LET got == get_cached_result(results_cache, job_id, now)
  IN /\ results_lock = NoThread
     /\ results_cache' = got[1]
     /\ touched' = IF got[2] THEN TouchedAfterTouch(touched, got[1], job_id)
                             ELSE TouchedAfterDrop(touched, got[1])
     /\ reply' = IF got[2]
                 THEN [NoReply EXCEPT !.op = "status", !.request = job_id, !.code = 200,
                                      !.job_id = job_id, !.status = got[3].status,
                                      !.data = got[3].data]
                 ELSE [NoReply EXCEPT !.op = "status", !.request = job_id, !.code = 200,
                                      !.job_id = job_id, !.status = "processing"]
     /\ UNCHANGED <<containers, stats, pool_lock, job_queue, now, loop, monitor, nsub,
                    taken, written, calls, created, results_lock, handler, forwarded, agent>>

(***************************************************************************)
(* The cache functions called on their own: cache_result as a dispatch    *)
(* loop calls it when a job with id job_id ends with outcome r, and the   *)
(* sweep as the health thread calls it.  Job ids can repeat: two requests *)
(* for one package in the same clock tick get the same id.                *)
(***************************************************************************)
CacheResultCall(job_id, r) ==
  /\ results_lock = NoThread
  /\ results_cache' = cache_result(results_cache, job_id,
                                   ResultOf(r, KeyPackage(job_id), 1), now)
  /\ touched' = TouchedAfterTouch(touched, results_cache', job_id)
  /\ reply' = [NoReply EXCEPT !.op = "cache_result", !.request = job_id,
                              !.job_id = job_id,
                              !.evicted = CacheKeys(results_cache)
                                            \ CacheKeys(PopWhileFull(results_cache))]
  /\ UNCHANGED <<containers, stats, pool_lock, job_queue, now, loop, monitor, nsub,
                 taken, written, calls, created, results_lock, handler, forwarded, agent>>

SweepCall ==
  /\ results_lock = NoThread
  /\ results_cache' = cleanup_expired_results(results_cache, now)
  /\ touched' = TouchedAfterDrop(touched, results_cache')
  /\ reply' = [NoReply EXCEPT !.op = "cleanup",
                              !.evicted = CacheKeys(results_cache) \ CacheKeys(results_cache')]
  /\ UNCHANGED <<containers, stats, pool_lock, job_queue, now, loop, monitor, nsub,
                 taken, written, calls, created, results_lock, handler, forwarded, agent>>

(***************************************************************************)
(* The pool's methods called on their own, each one whole under pool.lock:*)
(* get_available_container with the answers the /health probes give,     *)
(* release_container with any id, known or not, and check_all_containers. *)
(***************************************************************************)
\* ids a caller can pass: None, the containers' ids, and one id of no container
ReleaseIds == 0..(NumContainers + 1)

AcquireCall ==
  /\ pool_lock = NoThread
  /\ \E probe \in Probes :
       LET got == get_available_container(containers, probe)
       IN /\ containers' = got[1]
          /\ reply' = [NoReply EXCEPT !.op = "acquire",
                         !.data = IF got[2] = NoContainer THEN <<>> ELSE <<got[2]>>]
  /\ UNCHANGED <<stats, pool_lock, job_queue, results_cache, touched, now, loop,
                 monitor, nsub, taken, written, calls, created, results_lock, handler, forwarded, agent>>

ReleaseCall(id, success) ==
  /\ pool_lock = NoThread
  /\ stats.total_jobs < MaxJobs
  /\ containers' = release_container(containers, id, success)
  /\ stats' = release_stats(stats, id, success)
  /\ reply' = [NoReply EXCEPT !.op = "release", !.request = <<id>>]
  /\ UNCHANGED <<pool_lock, job_queue, results_cache, touched, now, loop,
                 monitor, nsub, taken, written, calls, created, results_lock, handler, forwarded, agent>>

CheckAllCall ==
  /\ pool_lock = NoThread
  /\ \E probe \in Probes :
       /\ containers' = check_all_containers(containers, probe)
       /\ reply' = [NoReply EXCEPT !.op = "check_all", !.data = probe]
  /\ UNCHANGED <<stats, pool_lock, job_queue, results_cache, touched, now, loop,
                 monitor, nsub, taken, written, calls, created, results_lock, handler, forwarded, agent>>

(***************************************************************************)
(* GET /download/<package>/<filename> of the orchestrator.  The file name *)
(* pattern is the web backend's (FilenameOk below).                       *)
(***************************************************************************)
\* what a container's /download_apk does: answers 200, answers another
\* status, or the request raises
DownloadAnswers == [Containers -> {"ok", "status", "error"}]

\* mutant: the loop does not skip unhealthy containers
RECURSIVE DownloadFromAll(_, _, _)
DownloadFromAll(cs, i, answers) ==
  IF i > NumContainers THEN <<404, <<>>>>
  ELSE IF answers[i] = "ok" THEN <<200, <<i>>>>
  ELSE LET rest == DownloadFromAll(cs, i + 1, answers)
       IN <<rest[1], <<i>> \o rest[2]>>

\* the loop over CONTAINERS from container i on: <<status, containers contacted>>
RECURSIVE DownloadFrom(_, _, _)
DownloadFrom(cs, i, answers) ==
  IF i > NumContainers THEN <<404, <<>>>>
  ELSE IF ~cs[i].healthy THEN DownloadFrom(cs, i + 1, answers)
  ELSE IF answers[i] = "ok" THEN <<200, <<i>>>>
  ELSE LET rest == DownloadFrom(cs, i + 1, answers)
       IN <<rest[1], <<i>> \o rest[2]>>

(***************************************************************************)
(* GET /packages of the orchestrator.                                     *)
(***************************************************************************)
\* what a container's /list_packages does: answers 200 with a list of
\* package names, answers another status, or the request raises
ListAnswer ==
  {[kind |-> "status", packages |-> <<>>], [kind |-> "error", packages |-> <<>>]}
    \cup {[kind |-> "ok", packages |-> ps] : ps \in {<<"p">>, <<"q", "p">>}}
ListAnswers == [Containers -> ListAnswer]

\* for pkg in data["packages"]: if pkg_name not in all_packages: add it
RECURSIVE MergePackages(_, _)
MergePackages(all, ps) ==
  IF Len(ps) = 0 THEN all
  ELSE MergePackages(IF \E k \in 1..Len(all) : all[k] = Head(ps)
                     THEN all ELSE Append(all, Head(ps)),
                     Tail(ps))

\* the loop over CONTAINERS from container i on, all_packages being all:
\* <<containers contacted, all_packages afterwards>>
RECURSIVE ListFrom(_, _, _, _)
ListFrom(cs, i, answers, all) ==
  IF i > NumContainers THEN <<<<>>, all>>
  ELSE IF ~cs[i].healthy THEN ListFrom(cs, i + 1, answers, all)
  ELSE LET rest == ListFrom(cs, i + 1, answers,
                            IF answers[i].kind = "ok"
                            THEN MergePackages(all, answers[i].packages) ELSE all)
       IN <<<<i>> \o rest[1], rest[2]>>

\* the handler: reply.data is <<containers contacted, their answers, packages>>
ListPackages(answers) ==
  LET got == ListFrom(containers, 1, answers, <<>>)
  IN /\ reply' = [NoReply EXCEPT !.op = "packages", !.code = 200,
                                 !.data = <<got[1], answers, got[2]>>]
     /\ UNCHANGED <<containers, stats, pool_lock, job_queue, results_cache, touched, now,
                    loop, monitor, nsub, taken, written, calls, created, results_lock,
                    handler, forwarded, agent>>

(***************************************************************************)
(* The web backend (src/web-backend/web_backend.py): /api/extract and     *)
(* /api/download.  Its validate_package_name has the orchestrator's       *)
(* pattern.  mode is USE_ORCHESTRATOR.                                    *)
(***************************************************************************)
\* r'^[a-zA-Z0-9._-]+\.apk$': one or more name characters, then ".apk"; the
\* "$" of re.match also matches before a newline that ends the text
FileChars == WordChars \cup {"p", "k", ".", "-"}
ApkSuffix == <<".", "a", "p", "k">>

\* mutant: every file name is accepted
FilenameOkAny(f) == TRUE

FilenameOk(f) ==
  LET text == IF Len(f) > 0 /\ f[Len(f)] = "\n" THEN SubSeq(f, 1, Len(f) - 1) ELSE f
  IN /\ Len(text) >= Len(ApkSuffix) + 1
     /\ SubSeq(text, Len(text) - Len(ApkSuffix) + 1, Len(text)) = ApkSuffix
     /\ \A i \in 1..(Len(text) - Len(ApkSuffix)) : text[i] \in FileChars

FileApk == <<"a", ".", "a", "p", "k">>
FileApkNewline == FileApk \o <<"\n">>
FileBad == <<"a", ".", "b">>

\* the downstream answer: 200, another status, or the request times out,
\* is refused, or fails otherwise
WebOutcomes == {"ok", "status", "timeout", "refused", "error"}

\* the status /api/extract returns for a forwarded request: the downstream
\* status as it is (202 stands for every status other than 200)
ExtractRelay(outcome) ==
  IF outcome = "ok" THEN 200
  ELSE IF outcome = "status" THEN 202
  ELSE IF outcome = "timeout" THEN 504
  ELSE IF outcome = "refused" THEN 503
  ELSE 500

ApiExtract(input, mode, outcome) ==
  LET v == validate_package_name(input)
      target == IF mode THEN "orchestrator/extract" ELSE "device/extract_apk"
  IN /\ IF ~v[1]
        THEN /\ reply' = [NoReply EXCEPT !.op = "api_extract", !.request = input,
                                          !.code = 400, !.status = "error"]
             /\ forwarded' = forwarded
        ELSE /\ Len(forwarded) < MaxJobs
             /\ forwarded' = Append(forwarded, [target |-> target, package |-> v[2],
                                                filename |-> <<>>])
             /\ reply' = [NoReply EXCEPT !.op = "api_extract", !.request = input,
                                          !.code = ExtractRelay(outcome),
                                          !.status = outcome]
     /\ UNCHANGED <<containers, stats, pool_lock, job_queue, results_cache, touched, now,
                    loop, monitor, nsub, taken, written, calls, created, results_lock,
                    handler, agent>>

\* the status /api/download returns for a forwarded request: 200 for a 200
\* answer, 404 for any other answer, 500 for any exception
DownloadRelay(outcome) ==
  IF outcome = "ok" THEN 200
  ELSE IF outcome = "status" THEN 404
  ELSE 500

ApiDownload(package, filename, mode, outcome) ==
  LET v == validate_package_name(package)
      target == IF mode THEN "orchestrator/download" ELSE "device/download_apk"
  IN /\ IF ~v[1] \/ ~FilenameOk(filename)
        THEN /\ reply' = [NoReply EXCEPT !.op = "api_download", !.request = package,
                                          !.job_id = filename,
                                          !.code = 400, !.status = "error"]
             /\ forwarded' = forwarded
        ELSE /\ Len(forwarded) < MaxJobs
             /\ forwarded' = Append(forwarded, [target |-> target, package |-> v[2],
                                                filename |-> filename])
             /\ reply' = [NoReply EXCEPT !.op = "api_download", !.request = package,
                                          !.job_id = filename,
                                          !.code = DownloadRelay(outcome),
                                          !.status = outcome]
     /\ UNCHANGED <<containers, stats, pool_lock, job_queue, results_cache, touched, now,
                    loop, monitor, nsub, taken, written, calls, created, results_lock,
                    handler, agent>>

\* the handler: reply.data is <<containers contacted, their answers>>
Download(package, filename, answers) ==
  LET v == validate_package_name(package)
      got == DownloadFrom(containers, 1, answers)
  IN /\ reply' = IF ~v[1] \/ ~FilenameOk(filename)
                 THEN [NoReply EXCEPT !.op = "download", !.request = package,
                                      !.job_id = filename, !.code = 400,
                                      !.status = "error", !.data = <<<<>>, answers>>]
                 ELSE [NoReply EXCEPT !.op = "download", !.request = package,
                                      !.job_id = filename, !.code = got[1],
                                      !.data = <<got[2], answers>>]
     /\ UNCHANGED <<containers, stats, pool_lock, job_queue, results_cache, touched, now,
                    loop, monitor, nsub, taken, written, calls, created, results_lock,
                    handler, forwarded, agent>>

(***************************************************************************)
(* The device agent (src/device-agent/device_agent.py): schedule_cleanup  *)
(* and the do_cleanup threads it starts.                                  *)
(***************************************************************************)
\* with cleanup_lock: pending_cleanups[package_name] = True; then the thread
\* is started and sleeps
schedule_cleanup(package_name) ==
  /\ Len(timers) < MaxSchedules
  /\ cleanup_lock = NoThread
  /\ pending_cleanups' = pending_cleanups \cup {package_name}
  /\ timers' = Append(timers, [package |-> package_name, pc |-> "sleep"])
  /\ reply' = NoReply
  /\ UNCHANGED <<containers, stats, pool_lock, job_queue, results_cache, touched, now,
                 loop, monitor, nsub, taken, written, calls, created, results_lock,
                 handler, forwarded, cleanup_lock, cleaned>>

\* mutant: the thread goes on without waiting for cleanup_lock
TimerLockUnguarded(t) ==
  /\ timers[t].pc = "sleep"
  /\ cleanup_lock' = t
  /\ timers' = [timers EXCEPT ![t].pc = "check"]
  /\ reply' = NoReply
  /\ UNCHANGED <<containers, stats, pool_lock, job_queue, results_cache, touched, now,
                 loop, monitor, nsub, taken, written, calls, created, results_lock,
                 handler, forwarded, pending_cleanups, cleaned>>

\* do_cleanup: time.sleep(delay) is over; with cleanup_lock
TimerLock(t) ==
  /\ timers[t].pc = "sleep"
  /\ cleanup_lock = NoThread
  /\ cleanup_lock' = t
  /\ timers' = [timers EXCEPT ![t].pc = "check"]
  /\ reply' = NoReply
  /\ UNCHANGED <<containers, stats, pool_lock, job_queue, results_cache, touched, now,
                 loop, monitor, nsub, taken, written, calls, created, results_lock,
                 handler, forwarded, pending_cleanups, cleaned>>

\* if package_name in pending_cleanups: the cleanup starts; otherwise the
\* thread leaves the lock and ends
TimerCheck(t) ==
  /\ timers[t].pc = "check"
  /\ IF timers[t].package \in pending_cleanups
     THEN /\ timers' = [timers EXCEPT ![t].pc = "cleaning"]
          /\ cleanup_lock' = cleanup_lock
     ELSE /\ timers' = [timers EXCEPT ![t].pc = "done"]
          /\ cleanup_lock' = NoThread
  /\ reply' = NoReply
  /\ UNCHANGED <<containers, stats, pool_lock, job_queue, results_cache, touched, now,
                 loop, monitor, nsub, taken, written, calls, created, results_lock,
                 handler, forwarded, pending_cleanups, cleaned>>

\* uninstall_app, cleanup_package_files (neither raises), del
\* pending_cleanups[package_name], and the lock is left
TimerCleanup(t) ==
  /\ timers[t].pc = "cleaning"
  /\ pending_cleanups' = pending_cleanups \ {timers[t].package}
  /\ cleaned' = [cleaned EXCEPT ![timers[t].package] = @ + 1]
  /\ cleanup_lock' = NoThread
  /\ timers' = [timers EXCEPT ![t].pc = "done"]
  /\ reply' = NoReply
  /\ UNCHANGED <<containers, stats, pool_lock, job_queue, results_cache, touched, now,
                 loop, monitor, nsub, taken, written, calls, created, results_lock,
                 handler, forwarded>>

(***************************************************************************)
(* The clock.                                                             *)
(***************************************************************************)
Tick ==
  /\ now < MaxTime
  /\ now' = now + 1
  /\ reply' = NoReply
  /\ UNCHANGED <<containers, stats, pool_lock, job_queue, results_cache, touched, loop,
                 monitor, nsub, taken, written, calls, created, results_lock, handler, forwarded, agent>>

LoopStep(l) ==
  \/ Dequeue(l)
  \/ AcquireLock(l)
  \/ Scan(l)
  \/ GiveUp(l)
  \/ Call(l)
  \/ Store(l)
  \/ ReleaseLock(l)
  \/ Release(l)

(***************************************************************************)
(* The sections under results_lock step by step: a thread takes the lock  *)
(* in one step and runs the body and leaves in the next, as the sections  *)
(* under pool.lock above.  GET /stats and GET /health read the pool       *)
(* through get_status, under pool.lock.                                   *)
(***************************************************************************)
\* cache_result(job_id, failed): with results_lock
GiveUpEnter(l) ==
  /\ loop[l].pc = "acquire"
  /\ loop[l].wait_count >= max_wait
  /\ results_lock = NoThread
  /\ results_lock' = l
  /\ loop' = [loop EXCEPT ![l].pc = "failing"]
  /\ reply' = NoReply
  /\ UNCHANGED <<containers, stats, pool_lock, job_queue, results_cache, touched, now,
                 monitor, nsub, taken, written, calls, created, handler, forwarded, agent>>

GiveUpLocked(l) ==
  /\ loop[l].pc = "failing"
  /\ results_cache' = cache_result(results_cache, loop[l].job.job_id,
                        Entry("failed", <<>>, "No container available after timeout",
                              NoContainer), now)
  /\ touched' = TouchedAfterTouch(touched, results_cache', loop[l].job.job_id)
  /\ written' = [written EXCEPT ![loop[l].job.n] = @ + 1]
  /\ results_lock' = NoThread
  /\ loop' = [loop EXCEPT ![l] = [pc |-> "take", job |-> NoJob, wait_count |-> 0,
                                  container |-> NoContainer, resp |-> "none"]]
  /\ reply' = NoReply
  /\ UNCHANGED <<containers, stats, pool_lock, job_queue, now, monitor, nsub,
                 taken, calls, created, handler, forwarded, agent>>

\* cache_result(job_id, ...) after the call: with results_lock
StoreEnter(l) ==
  /\ loop[l].pc = "store"
  /\ results_lock = NoThread
  /\ results_lock' = l
  /\ loop' = [loop EXCEPT ![l].pc = "storing"]
  /\ reply' = NoReply
  /\ UNCHANGED <<containers, stats, pool_lock, job_queue, results_cache, touched, now,
                 monitor, nsub, taken, written, calls, created, handler, forwarded, agent>>

\* mutant: the loop leaves cache_result with results_lock still held
StoreLockedKeepingLock(l) ==
  /\ loop[l].pc = "storing"
  /\ results_cache' = cache_result(results_cache, loop[l].job.job_id,
                        ResultOf(loop[l].resp, loop[l].job.package, loop[l].container),
                        now)
  /\ touched' = TouchedAfterTouch(touched, results_cache', loop[l].job.job_id)
  /\ written' = [written EXCEPT ![loop[l].job.n] = @ + 1]
  /\ loop' = [loop EXCEPT ![l].pc = "release"]
  /\ reply' = NoReply
  /\ UNCHANGED <<containers, stats, pool_lock, job_queue, now, monitor, nsub,
                 taken, calls, created, results_lock, handler, forwarded, agent>>

StoreLocked(l) ==
  /\ loop[l].pc = "storing"
  /\ results_cache' = cache_result(results_cache, loop[l].job.job_id,
                        ResultOf(loop[l].resp, loop[l].job.package, loop[l].container),
                        now)
  /\ touched' = TouchedAfterTouch(touched, results_cache', loop[l].job.job_id)
  /\ written' = [written EXCEPT ![loop[l].job.n] = @ + 1]
  /\ results_lock' = NoThread
  /\ loop' = [loop EXCEPT ![l].pc = "release"]
  /\ reply' = NoReply
  /\ UNCHANGED <<containers, stats, pool_lock, job_queue, now, monitor, nsub,
                 taken, calls, created, handler, forwarded, agent>>

\* cleanup_expired_results(): with results_lock
SweepEnter ==
  /\ monitor = "sweep"
  /\ results_lock = NoThread
  /\ results_lock' = MonitorThread
  /\ monitor' = "sweeping"
  /\ reply' = NoReply
  /\ UNCHANGED <<containers, stats, pool_lock, job_queue, results_cache, touched, now,
                 loop, nsub, taken, written, calls, created, handler, forwarded, agent>>

SweepLocked ==
  /\ monitor = "sweeping"
  /\ results_cache' = cleanup_expired_results(results_cache, now)
  /\ touched' = TouchedAfterDrop(touched, results_cache')
  /\ results_lock' = NoThread
  /\ monitor' = "sleep"
  /\ reply' = NoReply
  /\ UNCHANGED <<containers, stats, pool_lock, job_queue, now, loop, nsub,
                 taken, written, calls, created, handler, forwarded, agent>>

\* GET /status/<job_id>: get_cached_result(job_id): with results_lock
StatusEnter(job_id) ==
  /\ handler.pc = "idle"
  /\ results_lock = NoThread
  /\ results_lock' = HandlerThread
  /\ handler' = [pc |-> "status", job_id |-> job_id]
  /\ reply' = NoReply
  /\ UNCHANGED <<containers, stats, pool_lock, job_queue, results_cache, touched, now,
                 loop, monitor, nsub, taken, written, calls, created, forwarded, agent>>

StatusLocked ==
  LET job_id == handler.job_id
      got == get_cached_result(results_cache, job_id, now)
  IN /\ handler.pc = "status"
     /\ results_cache' = got[1]
     /\ touched' = IF got[2] THEN TouchedAfterTouch(touched, got[1], job_id)
                             ELSE TouchedAfterDrop(touched, got[1])
     /\ reply' = IF got[2]
                 THEN [NoReply EXCEPT !.op = "status", !.request = job_id, !.code = 200,
                                      !.job_id = job_id, !.status = got[3].status,
                                      !.data = got[3].data]
                 ELSE [NoReply EXCEPT !.op = "status", !.request = job_id, !.code = 200,
                                      !.job_id = job_id, !.status = "processing"]
     /\ results_lock' = NoThread
     /\ handler' = [pc |-> "idle", job_id |-> <<>>]
     /\ UNCHANGED <<containers, stats, pool_lock, job_queue, now, loop, monitor, nsub,
                    taken, written, calls, created, forwarded, agent>>

\* GET /stats, GET /health: pool.get_status(): with self.lock
StatsEnter ==
  /\ handler.pc = "idle"
  /\ pool_lock = NoThread
  /\ pool_lock' = HandlerThread
  /\ handler' = [pc |-> "stats", job_id |-> <<>>]
  /\ reply' = NoReply
  /\ UNCHANGED <<containers, stats, job_queue, results_cache, touched, now, loop,
                 monitor, nsub, taken, written, calls, created, results_lock, forwarded, agent>>

StatsLocked ==
  /\ handler.pc = "stats"
  /\ pool_lock' = NoThread
  /\ handler' = [pc |-> "idle", job_id |-> <<>>]
  /\ reply' = [NoReply EXCEPT !.op = "stats", !.code = 200]
  /\ UNCHANGED <<containers, stats, job_queue, results_cache, touched, now, loop,
                 monitor, nsub, taken, written, calls, created, results_lock, forwarded, agent>>

(***************************************************************************)
(* Spec: the pool, the queue, the dispatch loops and the health thread    *)
(* under submissions of one package.  Nothing these steps decide reads    *)
(* the clock, so the clock does not advance here.                         *)
(***************************************************************************)
Next ==
  \/ Extract(PkgAB)
  \/ \E l \in Loops : LoopStep(l)
  \/ MonitorLock
  \/ MonitorCheckAll
  \/ MonitorCleanup

Spec == Init /\ [][Next]_vars

\* FairSpec: the dispatch loops alone under submissions, scheduled fairly:
\* a loop that can step eventually does, and a loop waiting for pool.lock
\* gets it if the lock is free again and again.  (The health thread is left
\* out to keep the liveness check within reach; it holds the lock for one
\* step at a time.)
FairNext ==
  \/ Extract(PkgAB)
  \/ \E l \in Loops : LoopStep(l)

Fairness ==
  \A l \in Loops :
    /\ WF_vars(Dequeue(l))
    /\ SF_vars(AcquireLock(l))
    /\ WF_vars(Scan(l))
    /\ WF_vars(GiveUp(l))
    /\ WF_vars(Call(l))
    /\ WF_vars(Store(l))
    /\ SF_vars(ReleaseLock(l))
    /\ WF_vars(Release(l))

FairSpec == Init /\ [][FairNext]_vars /\ Fairness

\* HealthSpec: the dispatch loops and the health thread under submissions.
\* A thread inside a critical section of pool.lock leaves it, a loop that
\* holds a container goes on to its call, its cache_result and its release,
\* and a loop waiting for pool.lock to release gets it.
HealthFairness ==
  /\ WF_vars(MonitorCheckAll)
  /\ \A l \in Loops :
       /\ WF_vars(Scan(l))
       /\ WF_vars(Call(l))
       /\ WF_vars(Store(l))
       /\ SF_vars(ReleaseLock(l))
       /\ WF_vars(Release(l))

HealthSpec == Init /\ [][Next]_vars /\ HealthFairness

(***************************************************************************)
(* LockSpec: every thread that takes a lock - the dispatch loops, the     *)
(* health thread and a request handler - with each locked section entered *)
(* and left in separate steps.                                            *)
(***************************************************************************)
LockLoopStep(l) ==
  \/ Dequeue(l)
  \/ AcquireLock(l)
  \/ Scan(l)
  \/ GiveUpEnter(l)
  \/ GiveUpLocked(l)
  \/ Call(l)
  \/ StoreEnter(l)
  \/ StoreLocked(l)
  \/ ReleaseLock(l)
  \/ Release(l)

LockNext ==
  \/ Extract(PkgAB)
  \/ \E l \in Loops : LockLoopStep(l)
  \/ MonitorLock
  \/ MonitorCheckAll
  \/ SweepEnter
  \/ SweepLocked
  \/ \E n \in 1..nsub : StatusEnter(created[n])
  \/ StatusLocked
  \/ StatsEnter
  \/ StatsLocked

LockSpec == Init /\ [][LockNext]_vars

(***************************************************************************)
(* MonitorSpec: the health thread, with rounds that can raise, next to    *)
(* one dispatch loop under submissions.  The health thread gets pool.lock *)
(* if it is free again and again, not every round raises, and a dispatch  *)
(* loop inside pool.lock leaves it.                                       *)
(***************************************************************************)
MonitorNext ==
  \/ Extract(PkgAB)
  \/ LoopStep(1)
  \/ MonitorLock
  \/ MonitorCheckAll
  \/ MonitorCleanup
  \/ MonitorRaise

MonitorFairness ==
  /\ SF_vars(MonitorLock)
  /\ SF_vars(MonitorCheckAll)
  /\ SF_vars(MonitorCleanup)
  /\ WF_vars(Scan(1))
  /\ WF_vars(Release(1))

MonitorSpec == Init /\ [][MonitorNext]_vars /\ MonitorFairness

(***************************************************************************)
(* POST /extract with the dedup scan as the iteration it is: the handler  *)
(* validates, builds the job id and creates the iterator of               *)
(* results_cache.items() without taking results_lock; each step of the    *)
(* loop is one step here.  The iterator of an OrderedDict raises          *)
(* RuntimeError when the dict gained or lost a key since the iterator was *)
(* created, and the handler has no except clause: the answer is 500.      *)
(***************************************************************************)
KeysOf(c) == [i \in 1..Len(c) |-> c[i].key]

DedupEnter(input) ==
  LET v == validate_package_name(input)
  IN /\ handler.pc = "idle"
     /\ nsub < MaxJobs
     /\ IF ~v[1]
        THEN /\ reply' = [NoReply EXCEPT !.op = "extract", !.request = input,
                                          !.code = 400, !.status = "error"]
             /\ handler' = handler
        ELSE /\ reply' = NoReply
             /\ handler' = [pc |-> "dedup", job_id |-> JobId(v[2], now),
                            package |-> v[2], pos |-> 1, keys |-> KeysOf(results_cache)]
     /\ UNCHANGED <<containers, stats, pool_lock, job_queue, results_cache, touched, now,
                    loop, monitor, nsub, taken, written, calls, created, results_lock,
                    forwarded, agent>>

\* one round of 'for cached_job_id, cached_result in results_cache.items()',
\* the statements after the loop when the iterator is exhausted
DedupStep ==
  /\ handler.pc = "dedup"
  /\ handler' = [pc |-> "idle", job_id |-> <<>>]
       \/ (/\ KeysOf(results_cache) = handler.keys
           /\ handler.pos <= Len(results_cache)
           /\ ~(/\ StartsWith(results_cache[handler.pos].key, handler.package \o <<"_">>)
                /\ results_cache[handler.pos].value.status = "completed")
           /\ handler' = [handler EXCEPT !.pos = @ + 1])
  /\ IF KeysOf(results_cache) # handler.keys
     THEN /\ reply' = [NoReply EXCEPT !.op = "extract", !.request = handler.package,
                                       !.code = 500, !.status = "error"]
          /\ UNCHANGED <<job_queue, nsub, created>>
     ELSE IF handler.pos > Len(results_cache)
     THEN /\ nsub' = nsub + 1
          /\ created' = [created EXCEPT ![nsub + 1] = handler.job_id]
          /\ job_queue' = Append(job_queue, [job_id |-> handler.job_id,
                                             package |-> handler.package, n |-> nsub + 1])
          /\ reply' = [NoReply EXCEPT !.op = "extract", !.request = handler.package,
                                       !.code = 202, !.job_id = handler.job_id,
                                       !.status = "queued"]
     ELSE IF /\ StartsWith(results_cache[handler.pos].key, handler.package \o <<"_">>)
             /\ results_cache[handler.pos].value.status = "completed"
     THEN /\ reply' = [NoReply EXCEPT !.op = "extract", !.request = handler.package,
                                       !.code = 200, !.cached = TRUE,
                                       !.job_id = results_cache[handler.pos].key,
                                       !.status = "completed",
                                       !.data = results_cache[handler.pos].value.data]
          /\ UNCHANGED <<job_queue, nsub, created>>
     ELSE /\ reply' = NoReply
          /\ UNCHANGED <<job_queue, nsub, created>>
  /\ UNCHANGED <<containers, stats, pool_lock, results_cache, touched, now, loop, monitor,
                 taken, written, calls, results_lock, forwarded, agent>>

(***************************************************************************)
(* DedupSpec: POST /extract requests whose dedup scan runs step by step,  *)
(* next to one dispatch loop, the sweep and the clock.                    *)
(***************************************************************************)
DedupNext ==
  \/ \E input \in {PkgAB, PkgBad} : DedupEnter(input)
  \/ DedupStep
  \/ LoopStep(1)
  \/ SweepCall
  \/ Tick

DedupSpec == Init /\ [][DedupNext]_vars

(***************************************************************************)
(* AgentSpec: the device agent under schedule_cleanup calls for two       *)
(* packages, with the do_cleanup threads running in any order.            *)
(***************************************************************************)
AgentNext ==
  \/ \E p \in AgentPackages : schedule_cleanup(p)
  \/ \E t \in 1..Len(timers) : TimerLock(t)
  \/ \E t \in 1..Len(timers) : TimerCheck(t)
  \/ \E t \in 1..Len(timers) : TimerCleanup(t)

AgentSpec == Init /\ [][AgentNext]_vars

(***************************************************************************)
(* RaiseSpec: the dispatch loops under submissions, with statements of an *)
(* iteration that can raise.                                              *)
(***************************************************************************)
RaiseNext ==
  \/ Extract(PkgAB)
  \/ \E l \in Loops : LoopStep(l)
  \/ \E l \in Loops : RaiseInAcquire(l)
  \/ \E l \in Loops : RaiseInTry(l)
  \/ \E l \in Loops : RaiseInHandler(l)

RaiseSpec == Init /\ [][RaiseNext]_vars

(***************************************************************************)
(* CacheSpec: the result cache under any sequence of cache_result,        *)
(* get_cached_result (through GET /status) and cleanup_expired_results    *)
(* calls, with the clock advancing.                                       *)
(***************************************************************************)
\* one job id more than the cache can hold
CacheIds == {JobId(PkgAB, t) : t \in 0..MAX_CACHED_RESULTS}

CacheNext ==
  \/ \E k \in CacheIds : CacheResultCall(k, "ok")
  \/ \E k \in CacheIds : Status(k)
  \/ SweepCall
  \/ Tick

CacheSpec == Init /\ [][CacheNext]_vars

(***************************************************************************)
(* GatewaySpec: the request handlers with one dispatch loop and the       *)
(* clock, for requests of two packages, one a prefix of the other, and    *)
(* one malformed name.                                                    *)
(***************************************************************************)
GatewayNext ==
  \/ \E input \in {PkgAB, PkgABC, PkgBad} : Extract(input)
  \/ LoopStep(1)
  \/ Tick

GatewaySpec == Init /\ [][GatewayNext]_vars

(***************************************************************************)
(* StatusSpec: submissions of one package, one dispatch loop, the clock   *)
(* and GET /status for the job ids a submission can get.                  *)
(***************************************************************************)
StatusIds == {JobId(PkgAB, t) : t \in 0..MaxTime}

StatusNext ==
  \/ Extract(PkgAB)
  \/ LoopStep(1)
  \/ \E k \in StatusIds : Status(k)
  \/ Tick

StatusSpec == Init /\ [][StatusNext]_vars

(***************************************************************************)
(* PoolSpec: any sequence of calls of the pool's methods and of           *)
(* GET /download and GET /packages.                                       *)
(***************************************************************************)
PoolNext ==
  \/ AcquireCall
  \/ \E id \in ReleaseIds : \E success \in BOOLEAN : ReleaseCall(id, success)
  \/ CheckAllCall
  \/ \E package \in {PkgAB, PkgBad} : \E filename \in {FileApk, FileBad} :
       \E answers \in DownloadAnswers : Download(package, filename, answers)
  \/ \E answers \in ListAnswers : ListPackages(answers)

PoolSpec == Init /\ [][PoolNext]_vars

(***************************************************************************)
(* WebSpec: requests to the web backend, well-formed and malformed, in    *)
(* either mode.                                                           *)
(***************************************************************************)
WebNext ==
  \/ \E input \in {PkgAB, PkgABC, PkgBad, <<>>} : \E mode \in BOOLEAN :
       \E outcome \in WebOutcomes : ApiExtract(input, mode, outcome)
  \/ \E package \in {PkgAB, PkgBad} : \E filename \in {FileApk, FileApkNewline, FileBad} :
       \E mode \in BOOLEAN : \E outcome \in WebOutcomes :
         ApiDownload(package, filename, mode, outcome)

WebSpec == Init /\ [][WebNext]_vars

(***************************************************************************)
(* Claims.                                                                 *)
(***************************************************************************)
\* loop l has acquired a container and not yet released it
Holding(l) == loop[l].pc \in {"call", "store", "release", "releasing"}

\* C1: no two dispatch loops hold the same container between acquire and
\* release, and the container an acquire returns was not busy when scanned.
C1_NoSharedContainer ==
  \A l1, l2 \in Loops :
    (l1 # l2 /\ Holding(l1) /\ Holding(l2)) => loop[l1].container # loop[l2].container
C1_BusyNotReturned ==
  \A l \in Loops :
    (~Holding(l) /\ Holding(l)') => ~containers[loop'[l].container].busy
C1_MutualExclusion == [](C1_NoSharedContainer) /\ [][C1_BusyNotReturned]_vars
\* both loops hold a container at once
C1_Witness ==
  \E l1, l2 \in Loops : l1 # l2 /\ Holding(l1) /\ Holding(l2)

\* C2: a step changes the counters only by releasing: the release of an
\* acquisition adds exactly one to exactly one counter of that container
\* (jobs_completed on success, jobs_failed otherwise); no counter ever drops.
CountersOf(cs) == [c \in Containers |-> <<cs[c].jobs_completed, cs[c].jobs_failed>>]
C2_ReleaseCounts(l) ==
  LET c == loop[l].container
      before == CountersOf(containers)
      after == CountersOf(containers')
  IN /\ \A d \in Containers \ {c} : after[d] = before[d]
     /\ IF loop[l].resp = "ok"
        THEN after[c] = <<before[c][1] + 1, before[c][2]>>
        ELSE after[c] = <<before[c][1], before[c][2] + 1>>
C2_Step ==
  /\ \A c \in Containers :
       /\ containers'[c].jobs_completed >= containers[c].jobs_completed
       /\ containers'[c].jobs_failed >= containers[c].jobs_failed
  /\ \/ CountersOf(containers') = CountersOf(containers)
     \/ \E l \in Loops : /\ loop[l].pc = "releasing"
                         /\ loop'[l].pc = "take"
                         /\ C2_ReleaseCounts(l)
  /\ \A l \in Loops :
       (loop[l].pc = "releasing" /\ loop'[l].pc = "take") => C2_ReleaseCounts(l)
C2_Accounting == [][C2_Step]_vars
\* one acquisition was released as a success and one as a failure
C2_Witness ==
  /\ \E c \in Containers : containers[c].jobs_completed >= 1
  /\ \E c \in Containers : containers[c].jobs_failed >= 1

\* C9: every job created is either in the queue once and never dequeued, or
\* out of the queue and dequeued exactly once; no two loops work on one job.
InQueue(n) == Cardinality({i \in 1..Len(job_queue) : job_queue[i].n = n})
C9_DequeuedOnce ==
  /\ \A n \in Jobs : IF n <= nsub THEN InQueue(n) + taken[n] = 1
                                  ELSE InQueue(n) + taken[n] = 0
  /\ \A l1, l2 \in Loops :
       (l1 # l2 /\ loop[l1].job.n # 0) => loop[l1].job.n # loop[l2].job.n
\* two loops took one job each, and one of them has finished its job
C9_Witness ==
  /\ nsub = 2 /\ taken[1] = 1 /\ taken[2] = 1
  /\ \E l \in Loops : loop[l].job.n # 0
  /\ \E n \in Jobs : written[n] = 1

\* C10: the container an acquire returns had healthy=true when the scan
\* read it, and has healthy=true when it is marked busy.
C10_Step ==
  \A l \in Loops :
    (~Holding(l) /\ Holding(l)') =>
       /\ containers[loop'[l].container].healthy
       /\ containers'[loop'[l].container].healthy
       /\ containers'[loop'[l].container].busy
C10_HealthyAcquired == [][C10_Step]_vars
\* a loop holds the second container while the first is idle and unhealthy
C10_Witness ==
  \E l \in Loops : /\ Holding(l)
                   /\ loop[l].container = 2
                   /\ ~containers[1].healthy
                   /\ ~containers[1].busy

\* C7: a loop makes at most max_wait acquire attempts for a job; after the
\* last one fails its next step writes the failed entry 'No container
\* available after timeout' under the job's id and returns to the queue; and
\* a job that is waiting for a container eventually has a terminal entry.
NoContainerError == "No container available after timeout"
C7_AttemptsBounded ==
  \A l \in Loops :
    /\ loop[l].wait_count <= max_wait
    /\ loop[l].pc = "scan" => loop[l].wait_count < max_wait
C7_GivesUp ==
  \A l \in Loops :
    (loop[l].pc = "acquire" /\ loop[l].wait_count >= max_wait /\ loop'[l] # loop[l]) =>
       /\ loop[l].job.job_id \in CacheKeys(results_cache')
       /\ Lookup(results_cache', loop[l].job.job_id).status = "failed"
       /\ Lookup(results_cache', loop[l].job.job_id).error = NoContainerError
       /\ written'[loop[l].job.n] = written[loop[l].job.n] + 1
       /\ loop'[l].pc = "take"
       /\ containers' = containers
       /\ job_queue' = job_queue
C7_Resolves ==
  \A l \in Loops : \A n \in Jobs :
    (loop[l].pc = "acquire" /\ loop[l].job.n = n) ~> (written[n] >= 1)
C7_NoWorkerAvailable ==
  /\ [](C7_AttemptsBounded)
  /\ [][C7_GivesUp]_vars
  /\ C7_Resolves
\* a loop has given up on a job after max_wait failed attempts
C7_Witness ==
  \E i \in 1..Len(results_cache) : results_cache[i].value.error = NoContainerError

\* C8: under fair scheduling every job that POST /extract enqueued
\* eventually has a completed or failed entry written under its job id.
C8_EventuallyTerminal ==
  \A n \in Jobs : (nsub >= n) ~> (written[n] >= 1)
\* two jobs were enqueued and both have their terminal entry
C8_Witness ==
  /\ nsub = 2
  /\ \A n \in Jobs : written[n] >= 1

\* C3: a GET /status read of an entry at or after the time it was cached
\* plus RESULT_EXPIRATION finds nothing (the claim as stated; the code
\* still returns the entry at exactly that time).
C3_ReadAtExpiry(k) ==
  /\ reply'.op = "status"
  /\ reply'.request = k
  /\ k \in CacheKeys(results_cache)
  /\ now >= FromIsoFormat(Lookup(results_cache, k).cached_at) + RESULT_EXPIRATION
C3_UnreadableFromExpiry ==
  [][\A k \in CacheIds : C3_ReadAtExpiry(k) => reply'.status = "processing"]_vars

\* C4: the result cache never holds more than MAX_CACHED_RESULTS entries.
C4_CapacityBound == Len(results_cache) <= MAX_CACHED_RESULTS
\* a cache_result call has just evicted an entry from a full cache
C4_Witness ==
  /\ reply.op = "cache_result"
  /\ reply.evicted # {}
  /\ Len(results_cache) = MAX_CACHED_RESULTS

\* C5: a cache_result call on a cache at capacity removes the least recently
\* touched entry, a touch being a cache_result for the key or a live
\* get_cached_result of it (the claim as stated; an overwrite by
\* cache_result leaves the entry at its old place in the eviction order).
C5_EvictsLeastRecentlyTouched ==
  [][(reply'.op = "cache_result" /\ Len(results_cache) >= MAX_CACHED_RESULTS)
       => reply'.evicted = {Head(touched)}]_vars

\* C6: a POST /extract for a package that has a completed, unexpired entry
\* answers 200, cached, with the job id and payload of such an entry, and
\* leaves the queue and the number of extraction calls as they were (the
\* claim as stated; the scan also accepts entries of other packages and
\* expired ones).
LiveCompletedFor(c, package, t) ==
  {i \in 1..Len(c) : /\ KeyPackage(c[i].key) = package
                     /\ c[i].value.status = "completed"
                     /\ ~Expired(c[i].value, t)}
C6_Step(p) ==
  (reply'.op = "extract" /\ reply'.request = p
     /\ LiveCompletedFor(results_cache, p, now) # {})
  => /\ reply'.code = 200
     /\ reply'.cached
     /\ \E i \in LiveCompletedFor(results_cache, p, now) :
          /\ reply'.job_id = results_cache[i].key
          /\ reply'.data = results_cache[i].value.data
     /\ job_queue' = job_queue
     /\ calls' = calls
C6_DedupIdempotent == [][\A p \in {PkgAB, PkgABC} : C6_Step(p)]_vars

\* C11: a container's busy flag is true exactly when one dispatch loop has
\* acquired it and not yet released it, and false when no loop holds it.
HoldersOf(c) == {l \in Loops : Holding(l) /\ loop[l].container = c}
C11_BusyIffHeld ==
  \A c \in Containers :
    /\ containers[c].busy <=> Cardinality(HoldersOf(c)) = 1
    /\ HoldersOf(c) = {} => ~containers[c].busy
\* one container is held and busy while another, released before, is idle
C11_Witness ==
  \E c, d \in Containers :
    /\ containers[c].busy /\ HoldersOf(c) # {}
    /\ ~containers[d].busy /\ containers[d].jobs_completed + containers[d].jobs_failed >= 1

\* C12: the jobs POST /extract has created have pairwise different job ids,
\* two submissions of one package at the same clock value included (the
\* claim as stated; the id is the package and the clock value, nothing else).
C12_JobIdsUnique ==
  \A m, n \in 1..nsub : m # n => created[m] # created[n]

\* C13: the entry a POST /extract for package K returns as cached is the
\* entry of a job submitted for exactly K (the claim as stated; the scan
\* takes any key that starts with K and an underscore).
C13_DedupSameKey ==
  [][(reply'.op = "extract" /\ reply'.cached)
       => KeyPackage(reply'.job_id) = reply'.request]_vars

\* C14: when POST /extract for K returns a live completed entry of K, no
\* other live completed entry of K was cached later than it (the claim as
\* stated; the scan returns the first match in cache order).
C14_Step ==
  (reply'.op = "extract" /\ reply'.cached
     /\ KeyPackage(reply'.job_id) = reply'.request
     /\ ~Expired(Lookup(results_cache, reply'.job_id), now))
  => \A i \in LiveCompletedFor(results_cache, reply'.request, now) :
       FromIsoFormat(results_cache[i].value.cached_at)
         <= FromIsoFormat(Lookup(results_cache, reply'.job_id).cached_at)
C14_DedupMostRecent == [][C14_Step]_vars

\* C15: the entry a POST /extract returns as cached has not expired (the
\* claim as stated; the scan does not read the expiry time).
C15_DedupNotExpired ==
  [][(reply'.op = "extract" /\ reply'.cached)
       => ~Expired(Lookup(results_cache, reply'.job_id), now)]_vars

\* C16: when GET /status answers 'processing' for the id of a created job,
\* a job with that id is still queued or in flight: its terminal entry has
\* not been written (the claim as stated; an entry that expired or was
\* evicted is answered 'processing' as well).
JobsWithId(k) == {n \in 1..nsub : created[n] = k}
C16_Step(k) ==
  (reply'.op = "status" /\ reply'.request = k /\ reply'.status = "processing"
     /\ JobsWithId(k) # {})
  => \E n \in JobsWithId(k) : written[n] = 0
C16_ProcessingMeansPending == [][\A k \in StatusIds : C16_Step(k)]_vars

\* C17: a POST /extract whose package fails validate_package_name (as the
\* name ab does) is answered 400 and leaves the job queue, the result cache
\* and every container record as they were.
C17_Step ==
  /\ (reply'.op = "extract" /\ reply'.request = PkgBad) => reply'.code = 400
  /\ (reply'.op = "extract" /\ ~validate_package_name(reply'.request)[1])
       => /\ reply'.code = 400
          /\ job_queue' = job_queue
          /\ results_cache' = results_cache
          /\ containers' = containers
          /\ stats' = stats
          /\ nsub' = nsub
C17_InvalidRejected == [][C17_Step]_vars
\* a malformed name was just rejected while a job waits in the queue, a
\* result is cached and a container is held
C17_Witness ==
  /\ reply.op = "extract" /\ reply.code = 400
  /\ ~validate_package_name(reply.request)[1]
  /\ job_queue # <<>>
  /\ results_cache # <<>>
  /\ \E c \in Containers : containers[c].busy

\* C18: when the extraction call on an acquired container fails, the job
\* gets a failed entry with an error text and the container's id, and the
\* release adds one to that container's jobs_failed, clears busy and leaves
\* its healthy flag and jobs_completed as they were.
C18_StoreFailed(l) ==
  (loop[l].pc = "store" /\ loop[l].resp # "ok" /\ loop'[l].pc # "store") =>
     LET k == loop[l].job.job_id
     IN /\ k \in CacheKeys(results_cache')
        /\ Lookup(results_cache', k).status = "failed"
        /\ Lookup(results_cache', k).error # ""
        /\ Lookup(results_cache', k).container = loop[l].container
        /\ loop[l].container \in Containers
        /\ loop'[l].pc = "release"
        /\ containers' = containers
C18_ReleaseFailed(l) ==
  (loop[l].pc = "releasing" /\ loop[l].resp # "ok" /\ loop'[l].pc # "releasing") =>
     LET c == loop[l].container
     IN /\ containers'[c].jobs_failed = containers[c].jobs_failed + 1
        /\ containers'[c].jobs_completed = containers[c].jobs_completed
        /\ containers'[c].healthy = containers[c].healthy
        /\ ~containers'[c].busy
        /\ stats'.failed_jobs = stats.failed_jobs + 1
        /\ stats'.successful_jobs = stats.successful_jobs
        /\ \A d \in Containers \ {c} : containers'[d] = containers[d]
C18_CallFailure == [][\A l \in Loops : C18_StoreFailed(l) /\ C18_ReleaseFailed(l)]_vars
\* a failed call was recorded and its container released, still healthy
C18_Witness ==
  \E i \in 1..Len(results_cache) :
    LET v == results_cache[i].value
    IN /\ v.status = "failed"
       /\ v.container \in Containers
       /\ containers[v.container].jobs_failed >= 1
       /\ containers[v.container].healthy
       /\ ~containers[v.container].busy

\* C19: a health probe of a container that a job holds may set healthy to
\* false but leaves busy, the counters and the loop's position as they were;
\* the job then still gets its terminal entry, and the loop stops holding
\* the container by exactly one release.
HeldContainers == {loop[l].container : l \in {m \in Loops : Holding(m)}}
C19_ProbeStep ==
  (pool_lock = MonitorThread /\ pool_lock' = NoThread) =>
     /\ loop' = loop
     /\ stats' = stats
     /\ results_cache' = results_cache
     /\ \A c \in Containers :
          /\ containers'[c].busy = containers[c].busy
          /\ containers'[c].jobs_completed = containers[c].jobs_completed
          /\ containers'[c].jobs_failed = containers[c].jobs_failed
C19_ScanStep ==
  \A l \in Loops : (pool_lock = l /\ loop[l].pc = "scan") =>
     \A c \in HeldContainers : containers'[c] = containers[c]
C19_ReleaseOnce ==
  /\ \A l \in Loops : (Holding(l) /\ ~Holding(l)') =>
        /\ stats'.total_jobs = stats.total_jobs + 1
        /\ ~containers'[loop[l].container].busy
        /\ written[loop[l].job.n] >= 1
  /\ stats'.total_jobs # stats.total_jobs =>
        Cardinality({l \in Loops : Holding(l) /\ ~Holding(l)'}) = 1
C19_RunsToOutcome ==
  \A l \in Loops :
    (Holding(l) /\ ~containers[loop[l].container].healthy) ~> ~Holding(l)
C19_ProbeLeavesJobAlone ==
  /\ [][C19_ProbeStep /\ C19_ScanStep /\ C19_ReleaseOnce]_vars
  /\ C19_RunsToOutcome
\* a probe has failed for a container that a job holds, and the job is
\* about to release it
C19_Witness ==
  \E l \in Loops :
    /\ loop[l].pc = "releasing"
    /\ ~containers[loop[l].container].healthy
    /\ containers[loop[l].container].busy

\* C20: no thread asks for pool.lock while it holds results_lock, or for
\* results_lock while it holds pool.lock; a thread that holds a lock is
\* inside that lock's section, which it leaves without taking another lock;
\* so no two threads ever wait for each other's lock.
Threads == Loops \cup {MonitorThread, HandlerThread}
RequestsPool(t) ==
  IF t \in Loops
  THEN \/ loop[t].pc = "acquire" /\ loop[t].wait_count < max_wait
       \/ loop[t].pc = "release"
  ELSE t = MonitorThread /\ monitor = "sleep"
RequestsResults(t) ==
  IF t \in Loops
  THEN \/ loop[t].pc = "acquire" /\ loop[t].wait_count >= max_wait
       \/ loop[t].pc = "store"
  ELSE t = MonitorThread /\ monitor = "sweep"
InPoolSection(t) ==
  IF t \in Loops THEN loop[t].pc \in {"scan", "releasing"}
  ELSE IF t = MonitorThread THEN monitor = "checking"
  ELSE handler.pc = "stats"
InResultsSection(t) ==
  IF t \in Loops THEN loop[t].pc \in {"failing", "storing"}
  ELSE IF t = MonitorThread THEN monitor = "sweeping"
  ELSE handler.pc = "status"
C20_LockOrdering ==
  /\ pool_lock \in Threads \cup {NoThread}
  /\ results_lock \in Threads \cup {NoThread}
  /\ \A t \in Threads :
       /\ ~(pool_lock = t /\ results_lock = t)
       /\ results_lock = t => (~RequestsPool(t) /\ InResultsSection(t))
       /\ pool_lock = t => (~RequestsResults(t) /\ InPoolSection(t))
  /\ ~\E a, b \in Threads :
        /\ pool_lock = a /\ RequestsResults(a)
        /\ results_lock = b /\ RequestsPool(b)
\* both locks are held, by different threads, while a dispatch loop waits
\* for pool.lock and the health thread for results_lock
C20_Witness ==
  /\ pool_lock \in Threads
  /\ results_lock \in Threads
  /\ pool_lock # results_lock
  /\ \E l \in Loops : RequestsPool(l)
  /\ RequestsResults(MonitorThread)

\* C21: while the health thread is probing the containers, a dispatch loop
\* that wants to release its container, or to scan for one, can take
\* pool.lock: the probes of other containers do not make it wait (the claim
\* as stated; check_all_containers probes every container in turn inside
\* one pool.lock section).
C21_ProbesDoNotBlock ==
  \A l \in Loops :
    (monitor = "checking" /\ pool_lock = MonitorThread) =>
       /\ loop[l].pc = "release" => ENABLED ReleaseLock(l)
       /\ (loop[l].pc = "acquire" /\ loop[l].wait_count < max_wait)
            => ENABLED AcquireLock(l)

\* C22: get_available_container returns the first container, in list
\* order, whose flags are healthy and not busy when the scan starts, and
\* marks it busy; it returns none exactly when there is no such container
\* (the claim as stated; the scan also probes the container and passes over
\* it when the probe fails).
HealthyIdle(cs) == {i \in Containers : cs[i].healthy /\ ~cs[i].busy}
FirstOf(S) == CHOOSE i \in S : \A j \in S : i <= j
C22_Step ==
  reply'.op = "acquire" =>
     IF HealthyIdle(containers) = {}
     THEN reply'.data = <<>>
     ELSE /\ reply'.data = <<FirstOf(HealthyIdle(containers))>>
          /\ containers'[FirstOf(HealthyIdle(containers))].busy
C22_FirstHealthyIdle == [][C22_Step]_vars

\* C23: release_container with an id of no container leaves every
\* container record and the pool's stats as they were.
C23_Step ==
  (reply'.op = "release" /\ reply'.request[1] \notin Containers)
    => (containers' = containers /\ stats' = stats)
C23_UnknownIdNoOp == [][C23_Step]_vars
\* a release with an unknown id was just made on a pool that has a busy
\* container and a counted job
C23_Witness ==
  /\ reply.op = "release"
  /\ reply.request[1] \notin Containers
  /\ \E c \in Containers : containers[c].busy
  /\ stats.total_jobs >= 1

\* C24: the health thread refreshes the pool's health infinitely often and
\* sweeps the cache infinitely often, the sweep of a round coming after its
\* refresh; after a round that raised, a next round starts.
C24_SweepAfterRefresh ==
  (monitor # "sweep" /\ monitor' = "sweep") => monitor = "checking"
C24_MonitorLive ==
  /\ []<><<MonitorCheckAll>>_vars
  /\ []<><<MonitorCleanup>>_vars
  /\ [][C24_SweepAfterRefresh]_vars
  /\ (reply.op = "monitor_error") ~> (monitor = "checking")
\* a round has just raised
C24_Witness ==
  /\ reply.op = "monitor_error"
  /\ monitor = "sleep"

\* C25: jobs leave the queue in the order POST /extract put them in (the
\* numbers n count the enqueues): a job has been dequeued only if every job
\* enqueued before it has, and a dequeue takes the oldest job in the queue.
C25_TakesOldest ==
  \A l \in Loops :
    (loop[l].pc = "take" /\ loop'[l].pc = "acquire") =>
       /\ job_queue # <<>>
       /\ loop'[l].job = Head(job_queue)
       /\ \A i \in 1..Len(job_queue) : loop'[l].job.n <= job_queue[i].n
C25_FifoDispatch ==
  /\ [](\A m, n \in Jobs : (m < n /\ taken[n] >= 1) => taken[m] >= 1)
  /\ [][C25_TakesOldest]_vars
\* two jobs waited in the queue together and each loop has taken one
C25_Witness ==
  /\ taken[1] = 1 /\ taken[2] = 1
  /\ \E l1, l2 \in Loops : loop[l1].job.n = 1 /\ loop[l2].job.n = 2
                             /\ loop[l1].pc = "acquire" /\ loop[l2].pc = "acquire"

\* C26: a POST /extract for a package that has a job queued or in flight
\* (created, its terminal entry not yet written) creates no second job (the
\* claim as stated; the scan looks for completed cache entries only).
PendingFor(package) ==
  \E n \in 1..nsub : KeyPackage(created[n]) = package /\ written[n] = 0
C26_Step ==
  (reply'.op = "extract" /\ PendingFor(reply'.request))
    => (nsub' = nsub /\ job_queue' = job_queue)
C26_InFlightDedup == [][C26_Step]_vars

\* C27: /api/extract and /api/download send a request downstream only for
\* input that validate_package_name (and, for download, the file name
\* pattern) accepted, and what they send is the accepted package; rejected
\* input - as the name ab, the empty name and the file name a.b are - is
\* answered 400 and nothing is sent.
WebAccepted ==
  /\ validate_package_name(reply'.request)[1]
  /\ reply'.op = "api_download" => FilenameOk(reply'.job_id)
C27_Step ==
  reply'.op \in {"api_extract", "api_download"} =>
     /\ forwarded' # forwarded =>
          /\ WebAccepted
          /\ forwarded' = Append(forwarded, forwarded'[Len(forwarded')])
          /\ forwarded'[Len(forwarded')].package = validate_package_name(reply'.request)[2]
     /\ ~WebAccepted => (reply'.code = 400 /\ forwarded' = forwarded)
     /\ (reply'.request \in {PkgBad, <<>>}
           \/ (reply'.op = "api_download" /\ reply'.job_id = FileBad))
          => (reply'.code = 400 /\ forwarded' = forwarded)
C27_ValidatedBeforeForward == [][C27_Step]_vars
\* one request was forwarded and the next, malformed, was just rejected
C27_Witness ==
  /\ reply.op = "api_download" /\ reply.code = 400
  /\ reply.request = PkgAB /\ reply.job_id = FileBad
  /\ Len(forwarded) = 1

\* C28: GET /download with well-formed input contacts healthy containers
\* only, in list order; it answers 200 when a healthy container answers 200,
\* having contacted the healthy containers up to the first such one and no
\* other; it answers 404 when none does, having contacted every healthy one.
IsIncreasing(q) == \A i, j \in 1..Len(q) : i < j => q[i] < q[j]
Range(q) == {q[i] : i \in 1..Len(q)}
C28_Step ==
  (reply'.op = "download" /\ validate_package_name(reply'.request)[1]
     /\ FilenameOk(reply'.job_id)) =>
     LET contacted == reply'.data[1]
         answers == reply'.data[2]
         healthy == {c \in Containers : containers[c].healthy}
         answering == {c \in healthy : answers[c] = "ok"}
     IN /\ IsIncreasing(contacted)
        /\ Range(contacted) \subseteq healthy
        /\ IF answering = {}
           THEN reply'.code = 404 /\ Range(contacted) = healthy
           ELSE /\ reply'.code = 200
                /\ Range(contacted) = {c \in healthy : c <= FirstOf(answering)}
        /\ containers' = containers
C28_DownloadProxy == [][C28_Step]_vars
\* a download passed over the unhealthy first container and got the file
\* from the second
C28_Witness ==
  /\ reply.op = "download" /\ reply.code = 200
  /\ reply.data[1] = <<2>>
  /\ ~containers[1].healthy
  /\ reply.data[2][1] = "ok"

\* C29: an iteration of a dispatch loop that acquired a container ends,
\* whatever the call's outcome, by one release of that container: busy is
\* cleared and one job is counted; an iteration that acquired none ends
\* without a change to the pool; jobs are counted by such releases only, so
\* the jobs counted and the jobs still holding a container add up to the
\* calls made.
C29_EndOfIteration(l) ==
  (loop[l].pc # "take" /\ loop'[l].pc = "take") =>
     IF loop[l].container # NoContainer
     THEN LET c == loop[l].container
          IN /\ loop[l].pc = "releasing"
             /\ loop[l].resp \in Outcomes
             /\ containers[c].busy /\ ~containers'[c].busy
             /\ stats'.total_jobs = stats.total_jobs + 1
             /\ containers'[c].jobs_completed + containers'[c].jobs_failed
                  = containers[c].jobs_completed + containers[c].jobs_failed + 1
     ELSE /\ loop[l].pc = "acquire"
          /\ containers' = containers
          /\ stats' = stats
C29_CountedByRelease ==
  stats' # stats =>
    Cardinality({l \in Loops : loop[l].pc = "releasing" /\ loop'[l].pc = "take"}) = 1
C29_Balance ==
  /\ stats.total_jobs
       + Cardinality({l \in Loops : loop[l].pc \in {"store", "release", "releasing"}})
     = calls
  /\ stats.total_jobs = stats.successful_jobs + stats.failed_jobs
  /\ \A l \in Loops : loop[l].pc = "take" => loop[l].container = NoContainer
C29_ReleaseDiscipline ==
  /\ [][(\A l \in Loops : C29_EndOfIteration(l)) /\ C29_CountedByRelease]_vars
  /\ [](C29_Balance)
\* two jobs ran on containers, one call succeeded and one failed, and both
\* containers are free again
C29_Witness ==
  /\ stats.successful_jobs = 1 /\ stats.failed_jobs = 1
  /\ calls = 2
  /\ \A c \in Containers : ~containers[c].busy
  /\ \A l \in Loops : loop[l].pc = "take"

\* C30: whatever statement of an iteration raises after the dequeue, the
\* job has a terminal entry when the iteration ends - a failed one when the
\* iteration ends by the exception - and the loop is back at taking a job
\* (the claim as stated; an exception outside the inner try statement or
\* inside one of its except clauses only reaches the outer except clause,
\* which writes nothing).
C30_Step ==
  \A l \in Loops :
    (loop[l].job.n # 0 /\ loop'[l].job.n = 0) =>
       /\ loop'[l].pc = "take"
       /\ written'[loop[l].job.n] >= 1
       /\ reply'.op = "worker_error" =>
            /\ loop[l].job.job_id \in CacheKeys(results_cache')
            /\ Lookup(results_cache', loop[l].job.job_id).status = "failed"
C30_ExceptionsBecomeFailed == [][C30_Step]_vars

\* C31: a container's healthy flag changes only in the health thread's
\* check_all_containers; acquire, release and the extraction call leave
\* every healthy flag alone (the claim as stated; get_available_container
\* probes the container it is about to return and clears the flag of one
\* whose probe fails).
C31_Step ==
  (\E i \in Containers : containers'[i].healthy # containers[i].healthy) =>
     monitor = "checking" /\ monitor' # "checking"
C31_HealthAuthority == [][C31_Step]_vars


\* C32: check_all_containers probes every container, busy or idle, healthy
\* or not: afterwards each container's healthy flag is the answer of its
\* own probe (reply.data) and nothing else of it has changed, so an idle
\* container that was flagged unhealthy and whose probe succeeds is one
\* the acquire scan looks at again.
C32_Step ==
  reply'.op = "check_all" =>
    \A i \in Containers :
      /\ containers'[i] = [containers[i] EXCEPT !.healthy = reply'.data[i]]
      /\ (~containers[i].healthy /\ ~containers[i].busy /\ reply'.data[i])
            => i \in HealthyIdle(containers')
C32_HealthRefresh == [][C32_Step]_vars

\* a refresh has found a busy container healthy and marked another, idle
\* one, unhealthy
C32_Witness ==
  /\ reply.op = "check_all"
  /\ \E i, j \in Containers :
       /\ containers[i].busy /\ reply.data[i] /\ containers[i].healthy
       /\ ~containers[j].busy /\ ~reply.data[j] /\ ~containers[j].healthy


\* C33: cleanup_expired_results removes exactly the entries whose expiry
\* time - the time they were cached plus RESULT_EXPIRATION - lies before
\* the clock, read or not; the entries that stay keep their values and
\* their order.
C33_Step ==
  reply'.op = "cleanup" =>
    /\ \A k \in CacheKeys(results_cache) :
         k \in CacheKeys(results_cache') <=>
           ~(now > FromIsoFormat(Lookup(results_cache, k).cached_at) + RESULT_EXPIRATION)
    /\ CacheKeys(results_cache') \subseteq CacheKeys(results_cache)
    /\ \A k \in CacheKeys(results_cache') :
         Lookup(results_cache', k) = Lookup(results_cache, k)
    /\ \A i, j \in 1..Len(results_cache') :
         i < j => IndexOf(results_cache, results_cache'[i].key)
                    < IndexOf(results_cache, results_cache'[j].key)
C33_Sweep == [][C33_Step]_vars

\* a sweep has removed an entry and kept two others, one of which expires
\* at this very time
C33_Witness ==
  /\ reply.op = "cleanup"
  /\ reply.evicted # {}
  /\ Len(results_cache) >= 2
  /\ \E i \in 1..Len(results_cache) :
       now = FromIsoFormat(results_cache[i].value.expires_at)


\* C34: the acquire scan starts after the most recently assigned
\* container: when every container is healthy and idle and exactly one job
\* has been served so far, by container i (its cache entry names it), the
\* next acquisition gets the container after i in rotation (the claim as
\* stated; the scan starts at the first container every time).
C34_Step ==
  \A l \in Loops :
    ( /\ loop[l].pc = "scan" /\ loop'[l].pc = "call"
      /\ \A i \in Containers : ~containers[i].busy /\ containers[i].healthy
      /\ Cardinality({n \in Jobs : written[n] >= 1}) = 1
      /\ \A n \in Jobs : written[n] <= 1
      /\ Len(results_cache) = 1
      /\ results_cache[1].value.container \in Containers )
    => loop'[l].container = (results_cache[1].value.container % NumContainers) + 1
C34_RoundRobin == [][C34_Step]_vars


\* C35: GET /packages contacts the healthy containers in list order up to
\* the first one that answers 200, returns that container's packages and
\* contacts no container after it (the claim as stated; the handler goes
\* on through every healthy container and merges their lists).
C35_Step ==
  reply'.op = "packages" =>
    LET contacted == reply'.data[1]
        answers == reply'.data[2]
        Successes == {i \in Containers : containers[i].healthy /\ answers[i].kind = "ok"}
    IN /\ IsIncreasing(contacted)
       /\ IF Successes = {}
          THEN /\ Range(contacted) = {i \in Containers : containers[i].healthy}
               /\ reply'.data[3] = <<>>
          ELSE /\ Range(contacted) = {i \in Containers : containers[i].healthy
                                                         /\ i <= FirstOf(Successes)}
               /\ reply'.data[3] = MergePackages(<<>>, answers[FirstOf(Successes)].packages)
C35_ListProxy == [][C35_Step]_vars


\* C36: in an iteration that acquired a container, the job's terminal
\* entry is written before the container's busy flag is cleared: a loop on
\* its way to the release has written its job's entry, and every step that
\* clears a busy flag is the release of a loop that has.
C36_WrittenBeforeRelease ==
  \A l \in Loops :
    loop[l].pc \in {"release", "releasing"} => written[loop[l].job.n] >= 1
C36_Step ==
  \A i \in Containers :
    (containers[i].busy /\ ~containers'[i].busy) =>
       \E l \in Loops : /\ loop[l].pc = "releasing"
                        /\ loop[l].container = i
                        /\ written[loop[l].job.n] >= 1
                        /\ written'[loop[l].job.n] = written[loop[l].job.n]
C36_OutcomeBeforeRelease == [][C36_Step]_vars /\ [](C36_WrittenBeforeRelease)

\* a container that served a job is idle again while the other is still
\* held by a loop that has not yet written its entry
C36_Witness ==
  \E i \in Containers, l \in Loops :
    /\ ~containers[i].busy
    /\ containers[i].jobs_completed + containers[i].jobs_failed >= 1
    /\ loop[l].pc = "store"
    /\ \E n \in Jobs : written[n] >= 1


\* C37: pool.stats always has total_jobs = successful_jobs + failed_jobs,
\* successful_jobs the sum of the containers' jobs_completed and
\* failed_jobs the sum of their jobs_failed; a job given up for lack of a
\* container changes none of these counters.
RECURSIVE SumOver(_, _)
SumOver(f, S) ==
  IF S = {} THEN 0
  ELSE LET x == CHOOSE y \in S : TRUE IN f[x] + SumOver(f, S \ {x})
C37_Consistent ==
  /\ stats.total_jobs = stats.successful_jobs + stats.failed_jobs
  /\ stats.successful_jobs =
       SumOver([i \in Containers |-> containers[i].jobs_completed], Containers)
  /\ stats.failed_jobs =
       SumOver([i \in Containers |-> containers[i].jobs_failed], Containers)
C37_GiveUpUncounted ==
  \A l \in Loops :
    (loop[l].pc = "acquire" /\ loop'[l].pc = "take") =>
       /\ written'[loop[l].job.n] = written[loop[l].job.n] + 1
       /\ stats' = stats
       /\ CountersOf(containers') = CountersOf(containers)
BusyContainers == {i \in Containers : containers[i].busy}
C38_BusyBound ==
  /\ \A l \in Loops :
       Cardinality({i \in BusyContainers : Holding(l) /\ loop[l].container = i}) <= 1
  /\ \A i \in BusyContainers : \E l \in Loops : Holding(l) /\ loop[l].container = i
  /\ Cardinality(BusyContainers) <= Cardinality({l \in Loops : Holding(l)})
  /\ Cardinality(BusyContainers) <= WORKER_THREADS
  /\ Cardinality(BusyContainers) <= NumContainers

\* every dispatch loop holds a container, one of them about to release
C38_Witness ==
  /\ Cardinality(BusyContainers) = WORKER_THREADS
  /\ \A l \in Loops : Holding(l)
  /\ \E l \in Loops : loop[l].pc = "releasing"


\* C39: the dedup scan of POST /extract runs under results_lock, so while
\* it is under way no step of another thread inserts into, evicts from,
\* reorders or deletes from the result cache (the claim as stated; the
\* handler iterates results_cache.items() without taking the lock).
C39_Step ==
  handler.pc = "dedup" => KeysOf(results_cache') = KeysOf(results_cache)
C39_DedupScanAtomic == [][C39_Step]_vars


\* C40: of the do_cleanup threads started for a package, only one that
\* finds the package in pending_cleanups runs the uninstall and the
\* delete, holding cleanup_lock, and it removes the package from
\* pending_cleanups; no two threads are in the cleanup at once, and the
\* cleanups run never outnumber the schedule_cleanup calls.
Cleaning == {t \in 1..Len(timers) : timers[t].pc = "cleaning"}
C40_OneAtATime ==
  /\ Cardinality(Cleaning) <= 1
  /\ \A t \in Cleaning : cleanup_lock = t /\ timers[t].package \in pending_cleanups
  /\ SumOver(cleaned, AgentPackages) + Cardinality(Cleaning) <= Len(timers)
  /\ \A p \in AgentPackages :
       cleaned[p] <= Cardinality({t \in 1..Len(timers) : timers[t].package = p})
C40_Step ==
  \A t \in 1..Len(timers) :
    /\ (timers[t].pc # "cleaning" /\ timers'[t].pc = "cleaning") =>
          timers[t].package \in pending_cleanups /\ cleanup_lock = t
    /\ (timers[t].pc = "cleaning" /\ timers'[t].pc # "cleaning") =>
          /\ timers[t].package \notin pending_cleanups'
          /\ cleaned'[timers[t].package] = cleaned[timers[t].package] + 1
    /\ (timers[t].pc = "check" /\ timers'[t].pc = "done") => cleaned' = cleaned
C40_AgentCleanup == [](C40_OneAtATime) /\ [][C40_Step]_vars

\* three calls for one package: one thread has run the cleanup, one has
\* found nothing pending and ended, one has still to wake up
C40_Witness ==
  /\ Len(timers) = 3
  /\ \A t \in 1..3 : timers[t].package = PkgAB
  /\ cleaned[PkgAB] = 1
  /\ \E t, u \in 1..3 : t # u /\ timers[t].pc = "done" /\ timers[u].pc = "done"
  /\ \E t \in 1..3 : timers[t].pc = "sleep"

=============================================================================
